---- MODULE Spec2Model ----
(***************************************************************************)
(* OneNote exporter: the page parser/renderers of                          *)
(*   src/OneNote_ExporterV3.7.py  (class EnhancedOneNoteContentParser)     *)
(*   src/app.py                   (class OneNoteContentParser)             *)
(* modelled as state machines.  The two files are two programs that share  *)
(* most method names; definitions taken from app.py carry the prefix App_. *)
(*                                                                         *)
(* A page is an element tree.  Nodes are numbered 1..n in document order   *)
(* (the order of their start tags); node 0 is the root element.  Tags are  *)
(* local names (the namespace part, which every lookup of the code strips, *)
(* is left out).                                                           *)
(***************************************************************************)
EXTENDS Integers, Sequences, FiniteSets, TLC

VARIABLES
    parser,          \* "Enhanced" (OneNote_ExporterV3.7.py) or "App" (app.py)
    xml,             \* the page markup: [ok, n, par, lab]
    include_images,  \* the include_images argument of both parse calls
    wordDoc,         \* the python-docx document body, a sequence of units
    pdfStory,        \* the reportlab story, a sequence of units
    docx_result,     \* "none" before the call, else "True" / "False" as returned
    pdf_result,
    files,           \* output files that exist on disk
    temp_files,      \* parser.temp_files: image nodes whose temp file is tracked
    \* --- one Table element through the table extractors ---
    table,           \* the Table element: a sequence of rows of cells
    rows_data,       \* what _extract_table_data_enhanced returned
    unique_rows,     \* app.py: the rows _tables_word keeps after its own filter
    table_done,      \* which extractors have run: subset of {"Enhanced", "App"}
    table_render,    \* the renderer that ran on the table, the grid it
                     \* received and the cells of the table it built
    \* --- one byte string through _detect_image_format ---
    data,            \* the bytes, a sequence of 0..255
    format_ext,      \* "none" before the call, else the extension returned
    \* --- one Image element through the image handlers ---
    img_elem,        \* the Image element: [data, child, descendant] payloads
    image_data,      \* what the handler's extraction step produced
    image_out,       \* the pictures the handler put into the document
    scan_decoded,    \* the texts the subtree scan passed to b64decode
    image_done,      \* "none" before, else the handler that ran
    \* --- one text through the text cleaners ---
    t_text,          \* t_elem.text, a sequence of characters
    clean_text,      \* what the cleaner returned
    text_done,       \* "none" before, else the cleaner that ran
    \* --- one table through the PDF table renderers ---
    grid,            \* the deduplicated rows: [rows, cols]
    story,           \* the flowables the renderer appended to the story
    pdf_table_done,  \* "none" before, else the renderer that ran
    \* --- one table through the Word table renderers ---
    word_body,       \* the flowables the renderer added to the Word document
    word_table_done, \* "none" before, else the renderer that ran
    \* --- a batch conversion: GUI thread and convert worker ---
    program,         \* the file the GUI and worker are of: "Enhanced" or "App"
    items,           \* self.selected_items: the pages of the batch, by kind
    w_status,        \* the convert thread: "none", "running", "finished",
                     \* "terminated", or "lingering" (terminate() called, the
                     \* thread not yet stopped)
    w_pc,            \* where the worker's run() stands
    w_idx,           \* the index of the page the worker's loop is at
    parser_temp,     \* parser.temp_files of the one parser instance
    disk_temp,       \* the temp image files that exist on disk
    remove_failed,   \* the temp image files whose os.remove raised
    attempted,       \* the indices of the pages the loop has reached
    signals,         \* the signals the worker has emitted
    busy,            \* ModernOneNoteGUI._busy (the convert button is disabled)
    window,          \* "open", then the steps of closeEvent: "terminated"
                     \* (threads told to stop), "cleaning", "closed"
    conversions,     \* how many conversions were started
    \* --- one page whose units may raise ---
    unit_parser,     \* the parser the page goes through: "Enhanced" or "App"
    target,          \* the output asked for: "docx" or "pdf"
    page_units,      \* the page's units in document order: [kind, raises]
    io_failure,      \* "none", or what fails: "parse" (ET.fromstring) or "save"
    rendered,        \* the indices of the units put into the output, in order
    page_result,     \* "none" before the call, else the returned boolean
    \* --- text indent ---
    t_ancestors,     \* the ancestors of the T element, its parent OE first
    oe_lists,        \* the indent attributes of the List elements below that OE
    indent_level,    \* the indent level the handler worked out
    left_indent,     \* the left indent of the paragraph, in points
    indent_done,     \* "none" before, else the handler that ran
    \* --- picture sizing ---
    orig_width,      \* pil_img.size[0], in pixels
    orig_height,     \* pil_img.size[1], in pixels
    final_width,     \* the width given to RLImage, in hundredths of a point
    final_height,    \* the height given to RLImage, in hundredths of a point
    size_done,       \* "none" before, else the handler that sized the picture
    \* --- tree build ---
    nbs,             \* the hierarchy the populate worker was given
    pop_pc,          \* the populate worker's position in run
    posted,          \* the signals queued for the window, oldest first
    build_items,     \* self._build_items
    build_index,     \* self._build_index
    item_cache,      \* the ids in self._item_cache
    tree_items,      \* the items of self.tree, in creation order
    timer_active,    \* self._build_timer is running
    tree_busy,       \* self._busy
    build_finished,  \* _finish_build has run
    \* --- check ---
    shape,           \* the notebooks, sections and pages shown in the tree
    check_state,     \* item.checkState(0) of every item
    toggled,         \* the item the user clicked last (<<>> before the first click)
    \* --- button ---
    gui_busy,        \* self._busy
    gui_task,        \* the worker the window waits for: none, refresh or convert
    shown_pages,     \* the number of page items in the tree
    selected,        \* len(self.selected_items)
    dir_chosen,      \* bool(self.output_dir)
    convert_enabled, \* self.convert_btn.isEnabled()
    \* --- export ---
    out_items,       \* the worker's self.items
    out_idx,         \* how many items the loop of run has handled
    out_docx,        \* self.docx
    out_pdf,         \* self.pdf
    out_files,       \* the files under the output directory: path to the page that wrote it last
    out_ok,          \* the (page, format) pairs whose parse call returned True
    \* --- fetch ---
    fetch_app,       \* bool(self.app): the COM object is there
    fetch_max,       \* max_retries
    fetch_attempt,   \* the turns of the retry loop made so far
    fetch_log,       \* what each turn yielded: com, ps or none
    fetch_pc,        \* loop, returned, raised, skipped or exported
    fetch_result,    \* what get_page_content returned: <<>> for the empty string, else <<turn, method>>
    fetch_files      \* the output files the worker wrote for the page

pageVars == <<parser, xml, include_images, wordDoc, pdfStory, docx_result,
              pdf_result, files, temp_files>>
tableVars == <<table, rows_data, unique_rows, table_done, table_render>>
formatVars == <<data, format_ext>>
imageVars == <<img_elem, image_data, image_out, scan_decoded, image_done>>

textVars == <<t_text, clean_text, text_done>>
pdfTableVars == <<grid, story, pdf_table_done>>
wordTableVars == <<word_body, word_table_done>>
batchVars == <<program, items, w_status, w_pc, w_idx, parser_temp, disk_temp,
               remove_failed, attempted, signals, busy, window, conversions>>
unitVars == <<unit_parser, target, page_units, io_failure, rendered, page_result>>
indentVars == <<t_ancestors, oe_lists, indent_level, left_indent, indent_done>>
sizeVars == <<orig_width, orig_height, final_width, final_height, size_done>>
treeVars == <<nbs, pop_pc, posted, build_items, build_index, item_cache, tree_items, timer_active, tree_busy, build_finished>>
checkVars == <<shape, check_state, toggled>>
buttonVars == <<gui_busy, gui_task, shown_pages, selected, dir_chosen, convert_enabled>>
exportVars == <<out_items, out_idx, out_docx, out_pdf, out_files, out_ok>>
fetchVars == <<fetch_app, fetch_max, fetch_attempt, fetch_log, fetch_pc, fetch_result, fetch_files>>

vars == <<pageVars, tableVars, formatVars, imageVars, textVars, pdfTableVars,
          wordTableVars, batchVars, unitVars, indentVars, sizeVars, treeVars,
          checkVars, buttonVars, exportVars, fetchVars>>

nonPageVars == <<tableVars, formatVars, imageVars, textVars, pdfTableVars,
                 wordTableVars, batchVars, unitVars, indentVars, sizeVars,
                 treeVars, checkVars, buttonVars, exportVars, fetchVars>>
nonTableVars == <<pageVars, formatVars, imageVars, textVars, pdfTableVars,
                  wordTableVars, batchVars, unitVars, indentVars, sizeVars,
                  treeVars, checkVars, buttonVars, exportVars, fetchVars>>
nonFormatVars == <<pageVars, tableVars, imageVars, textVars, pdfTableVars,
                   wordTableVars, batchVars, unitVars, indentVars, sizeVars,
                   treeVars, checkVars, buttonVars, exportVars, fetchVars>>
nonImageVars == <<pageVars, tableVars, formatVars, textVars, pdfTableVars,
                  wordTableVars, batchVars, unitVars, indentVars, sizeVars,
                  treeVars, checkVars, buttonVars, exportVars, fetchVars>>
nonTextVars == <<pageVars, tableVars, formatVars, imageVars, pdfTableVars,
                 wordTableVars, batchVars, unitVars, indentVars, sizeVars,
                 treeVars, checkVars, buttonVars, exportVars, fetchVars>>
nonPdfTableVars == <<pageVars, tableVars, formatVars, imageVars, textVars,
                     wordTableVars, batchVars, unitVars, indentVars,
                     sizeVars, treeVars, checkVars, buttonVars, exportVars,
                     fetchVars>>
nonWordTableVars == <<pageVars, tableVars, formatVars, imageVars, textVars,
                      pdfTableVars, batchVars, unitVars, indentVars,
                      sizeVars, treeVars, checkVars, buttonVars, exportVars,
                      fetchVars>>
nonBatchVars == <<pageVars, tableVars, formatVars, imageVars, textVars,
                  pdfTableVars, wordTableVars, unitVars, indentVars,
                  sizeVars, treeVars, checkVars, buttonVars, exportVars,
                  fetchVars>>
nonUnitVars == <<pageVars, tableVars, formatVars, imageVars, textVars,
                 pdfTableVars, wordTableVars, batchVars, indentVars,
                 sizeVars, treeVars, checkVars, buttonVars, exportVars,
                 fetchVars>>
nonIndentVars == <<pageVars, tableVars, formatVars, imageVars, textVars,
                   pdfTableVars, wordTableVars, batchVars, unitVars,
                   sizeVars, treeVars, checkVars, buttonVars, exportVars,
                   fetchVars>>
nonSizeVars == <<pageVars, tableVars, formatVars, imageVars, textVars,
                 pdfTableVars, wordTableVars, batchVars, unitVars,
                 indentVars, treeVars, checkVars, buttonVars, exportVars,
                 fetchVars>>
nonTreeVars == <<pageVars, tableVars, formatVars, imageVars, textVars,
                 pdfTableVars, wordTableVars, batchVars, unitVars,
                 indentVars, sizeVars, checkVars, buttonVars, exportVars,
                 fetchVars>>
nonCheckVars == <<pageVars, tableVars, formatVars, imageVars, textVars,
                  pdfTableVars, wordTableVars, batchVars, unitVars,
                  indentVars, sizeVars, treeVars, buttonVars, exportVars,
                  fetchVars>>
nonButtonVars == <<pageVars, tableVars, formatVars, imageVars, textVars,
                   pdfTableVars, wordTableVars, batchVars, unitVars,
                   indentVars, sizeVars, treeVars, checkVars, exportVars,
                   fetchVars>>
nonExportVars == <<pageVars, tableVars, formatVars, imageVars, textVars,
                   pdfTableVars, wordTableVars, batchVars, unitVars,
                   indentVars, sizeVars, treeVars, checkVars, buttonVars,
                   fetchVars>>
nonFetchVars == <<pageVars, tableVars, formatVars, imageVars, textVars,
                  pdfTableVars, wordTableVars, batchVars, unitVars,
                  indentVars, sizeVars, treeVars, checkVars, buttonVars,
                  exportVars>>

-----------------------------------------------------------------------------
(* Bounds *)

\* Largest number of elements below the root of the page trees that are
\* enumerated in full (every shape, every labelling).
MaxNodes == 2

\* Largest number of top-level blocks of the pages that are built from the
\* usual OneNote blocks (an outline with text, an image, a table).
MaxBlocks == 2

-----------------------------------------------------------------------------
(* Element trees *)

\* What an element carries besides its tag:
\*   text: its .text is non-blank after cleaning (T, OE, Cell)
\*   img : the payload an Image element carries: "none", "small" (a picture of
\*         at most 100 bytes) or "big" (a picture of more than 100 bytes)
Labels ==
    {[tag |-> t, text |-> FALSE, img |-> "none"] : t \in {"Table", "Row", "List"}}
    \cup {[tag |-> t, text |-> b, img |-> "none"] :
             t \in {"Cell", "OE", "T"}, b \in BOOLEAN}
    \cup {[tag |-> "Image", text |-> FALSE, img |-> i] :
             i \in {"none", "small", "big"}}

RECURSIVE AncOrSelfOf(_, _)
\* The ancestors of node i and i itself, the root 0 included, for parent map par.
AncOrSelfOf(par, i) == IF i = 0 THEN {0} ELSE {i} \cup AncOrSelfOf(par, par[i])

\* Parent maps of n elements numbered in document order: the parent of i is the
\* root or lies on the path from the root to i-1.
Shapes(n) ==
    {par \in [1..n -> 0..(n-1)] :
        \A i \in 1..n : IF i = 1 THEN par[i] = 0
                        ELSE par[i] \in AncOrSelfOf(par, i - 1)}

PageTrees ==
    UNION {{[ok |-> TRUE, n |-> n, par |-> p, lab |-> l] :
               p \in Shapes(n), l \in [1..n -> Labels]} : n \in 0..MaxNodes}

\* The usual blocks of a OneNote page, each a subtree under the root (parents
\* are relative to the block, 0 being the root).
Node(tag, text, img) == [tag |-> tag, text |-> text, img |-> img]
Blocks ==
    {[par |-> <<0, 1>>,
      lab |-> <<Node("OE", FALSE, "none"), Node("T", TRUE, "none")>>],
     [par |-> <<0>>, lab |-> <<Node("Image", FALSE, "big")>>],
     [par |-> <<0>>, lab |-> <<Node("Image", FALSE, "small")>>],
     [par |-> <<0, 1, 2, 3, 4>>,
      lab |-> <<Node("Table", FALSE, "none"), Node("Row", FALSE, "none"),
                Node("Cell", FALSE, "none"), Node("OE", FALSE, "none"),
                Node("T", TRUE, "none")>>]}

\* The page tree of a sequence of blocks.
RECURSIVE Join(_)
Join(bs) ==
    IF bs = <<>> THEN [ok |-> TRUE, n |-> 0, par |-> <<>>, lab |-> <<>>]
    ELSE LET rest == Join(Tail(bs))
             b == Head(bs)
             k == Len(b.par)
         IN [ok |-> TRUE, n |-> k + rest.n,
             par |-> b.par \o [i \in 1..rest.n |->
                                  IF rest.par[i] = 0 THEN 0 ELSE rest.par[i] + k],
             lab |-> b.lab \o rest.lab]

BlockPages ==
    UNION {{Join(bs) : bs \in [1..m -> Blocks]} : m \in 1..MaxBlocks}

\* Markup that ET.fromstring rejects.
Malformed == [ok |-> FALSE, n |-> 0, par |-> <<>>, lab |-> <<>>]

Tag(t, i) == IF i = 0 THEN "Page" ELSE t.lab[i].tag

HasText(t, i) == i # 0 /\ t.lab[i].text

\* list(elem): the children of i in document order.
RECURSIVE SetToSortedSeq(_)
SetToSortedSeq(S) ==
    IF S = {} THEN <<>>
    ELSE LET m == CHOOSE x \in S : \A y \in S : x <= y
         IN <<m>> \o SetToSortedSeq(S \ {m})

Children(t, i) == SetToSortedSeq({j \in 1..t.n : t.par[j] = i})

RECURSIVE Iter(_, _)
RECURSIVE IterAll(_, _)
\* elem.iter(): the element, then its subtree, depth first in document order.
Iter(t, i) == <<i>> \o IterAll(t, Children(t, i))
IterAll(t, cs) == IF cs = <<>> THEN <<>>
                  ELSE Iter(t, Head(cs)) \o IterAll(t, Tail(cs))

Range(s) == {s[k] : k \in 1..Len(s)}

Min(a, b) == IF a < b THEN a ELSE b

-----------------------------------------------------------------------------
(* EnhancedOneNoteContentParser (OneNote_ExporterV3.7.py) *)

\* _findall_local: every element of parent.iter() whose local name matches,
\* the parent itself left out when it matches.
_findall_local(t, parent, local_name) ==
    LET Match(el) == Tag(t, el) = local_name
                     /\ (el # parent \/ Tag(t, el) # local_name)
    IN SelectSeq(Iter(t, parent), Match)

\* hasattr(element, 'getparent'): the trees are xml.etree.ElementTree trees
\* (import at line 18), whose elements have no getparent method.
ElementHasGetparent == FALSE

\* _is_inside_element: the loop looks at the element, then follows getparent()
\* while the element offers it.
_is_inside_element(t, element, target_elements) ==
    IF ElementHasGetparent
    THEN \E a \in AncOrSelfOf(t.par, element) : Tag(t, a) \in target_elements
    ELSE Tag(t, element) \in target_elements

\* Whether _extract_cell_text_enhanced returns a non-empty string: the T
\* descendants with text first, else any text of the cell's subtree.
CellNonBlankEnhanced(t, cell) ==
    LET WithText(el) == HasText(t, el)
    IN IF SelectSeq(_findall_local(t, cell, "T"), WithText) # <<>>
       THEN TRUE
       ELSE \E el \in Range(Iter(t, cell)) : HasText(t, el)

\* The Row elements _extract_table_data_enhanced keeps before it drops
\* repeated signatures: rows with a cell and a non-blank cell.  The first of
\* them always survives the signature filter.
TableRowsEnhanced(t, table_elem) ==
    LET Keeps(row) ==
            LET cells == _findall_local(t, row, "Cell")
            IN cells # <<>> /\ \E c \in Range(cells) : CellNonBlankEnhanced(t, c)
    IN SelectSeq(_findall_local(t, table_elem, "Row"), Keeps)

Unit(kind, node, rows) == [kind |-> kind, node |-> node, rows |-> rows]

\* _process_table_for_word / _process_table_for_pdf: nothing without rows, else
\* one table.
ProcessTableEnhanced(t, elem) ==
    LET rows == TableRowsEnhanced(t, elem)
    IN IF rows = <<>> THEN <<>> ELSE <<Unit("table", elem, rows)>>

\* _extract_image_data_enhanced accepts a payload of more than 100 bytes only.
ImageAcceptedEnhanced(t, elem) == t.lab[elem].img = "big"

\* _process_image_for_word / _process_image_for_pdf
ProcessImageEnhanced(t, elem) ==
    IF ImageAcceptedEnhanced(t, elem) THEN <<Unit("image", elem, <<>>)>> ELSE <<>>

\* _process_text_for_word / _process_text_for_pdf
ProcessTextEnhanced(t, elem) ==
    IF HasText(t, elem) THEN <<Unit("text", elem, <<>>)>> ELSE <<>>

\* The content processor without the include_images test on an image.
content_processor_ImagesAlways(t, element_type, element, inc) ==
    IF element_type = "table" THEN ProcessTableEnhanced(t, element)
    ELSE IF element_type = "image" THEN ProcessImageEnhanced(t, element)
    ELSE IF element_type = "text" THEN ProcessTextEnhanced(t, element)
    ELSE <<>>

\* _word_content_processor / _pdf_content_processor: the units one call appends.
content_processor(t, element_type, element, inc) ==
    IF element_type = "table" THEN ProcessTableEnhanced(t, element)
    ELSE IF element_type = "image" /\ inc THEN ProcessImageEnhanced(t, element)
    ELSE IF element_type = "text" THEN ProcessTextEnhanced(t, element)
    ELSE <<>>

RECURSIVE process_element(_, _, _)
RECURSIVE process_elements(_, _, _)
\* process_element: classify the element, call the processor, then recurse into
\* the children in order.
process_element(t, elem, inc) ==
    LET local_name == Tag(t, elem)
        own == IF local_name = "Table"
                   THEN content_processor(t, "table", elem, inc)
               ELSE IF local_name = "Image"
                   THEN content_processor(t, "image", elem, inc)
               ELSE IF local_name \in {"OE", "T"}
                       /\ ~_is_inside_element(t, elem, {"Table"})
                   THEN content_processor(t, "text", elem, inc)
               ELSE <<>>
    IN own \o process_elements(t, Children(t, elem), inc)
process_elements(t, cs, inc) ==
    IF cs = <<>> THEN <<>>
    ELSE process_element(t, Head(cs), inc) \o process_elements(t, Tail(cs), inc)

\* _process_content_in_original_order: from the root's children.
_process_content_in_original_order(t, inc) ==
    process_elements(t, Children(t, 0), inc)

Title == Unit("title", 0, <<>>)

\* A returned boolean.
Bool(b) == IF b THEN "True" ELSE "False"

\* The temp files a page's units leave in parser.temp_files.
TempOf(units) ==
    LET IsImage(u) == u.kind = "image"
    IN [k \in 1..Len(SelectSeq(units, IsImage)) |-> SelectSeq(units, IsImage)[k].node]

\* parse_page_to_docx with the parse error swallowed: the heading-only document
\* is saved and the call reports success.
parse_page_to_docx_ParseErrorSwallowed ==
    /\ parser = "Enhanced"
    /\ docx_result = "none"
    /\ LET units == IF xml.ok
                    THEN _process_content_in_original_order(xml, include_images)
                    ELSE <<>>
       IN /\ wordDoc' = <<Title>> \o units
          /\ temp_files' = temp_files \o TempOf(units)
          /\ docx_result' = "True"
          /\ files' = files \cup {"docx"}
    /\ UNCHANGED <<parser, xml, include_images, pdfStory, pdf_result>>
    /\ UNCHANGED nonPageVars

\* parse_page_to_docx: parse, heading, walk, save.
parse_page_to_docx ==
    /\ parser = "Enhanced"
    /\ docx_result = "none"
    /\ IF ~xml.ok
       THEN /\ docx_result' = "False"
            /\ UNCHANGED <<wordDoc, files, temp_files>>
       ELSE LET units == _process_content_in_original_order(xml, include_images)
            IN /\ wordDoc' = <<Title>> \o units
               /\ temp_files' = temp_files \o TempOf(units)
               /\ \E saved \in BOOLEAN :
                     /\ docx_result' = Bool(saved)
                     /\ IF saved THEN files' = files \cup {"docx"}
                        ELSE \E partial \in BOOLEAN :
                                files' = IF partial THEN files \cup {"docx"} ELSE files
    /\ UNCHANGED <<parser, xml, include_images, pdfStory, pdf_result>>
    /\ UNCHANGED nonPageVars

\* parse_page_to_pdf: parse, title, walk, build.
parse_page_to_pdf ==
    /\ parser = "Enhanced"
    /\ pdf_result = "none"
    /\ IF ~xml.ok
       THEN /\ pdf_result' = "False"
            /\ UNCHANGED <<pdfStory, files, temp_files>>
       ELSE LET units == _process_content_in_original_order(xml, include_images)
            IN /\ pdfStory' = <<Title>> \o units
               /\ temp_files' = temp_files \o TempOf(units)
               /\ \E built \in BOOLEAN :
                     /\ pdf_result' = Bool(built)
                     /\ IF built THEN files' = files \cup {"pdf"}
                        ELSE \E partial \in BOOLEAN :
                                files' = IF partial THEN files \cup {"pdf"} ELSE files
    /\ UNCHANGED <<parser, xml, include_images, wordDoc, docx_result>>
    /\ UNCHANGED nonPageVars


-----------------------------------------------------------------------------
(* OneNoteContentParser (app.py) *)

\* _write_text_word / _write_text_pdf_enhanced: with OE elements in the page,
\* the T descendants of each OE in turn (_process_outline_element,
\* _process_outline_pdf); without any, every T of the page.
App_write_text(t) ==
    LET WithText(el) == HasText(t, el)
        TextUnit(s) == [k \in 1..Len(s) |-> Unit("text", s[k], <<>>)]
        OfOutline(oe) == TextUnit(SelectSeq(_findall_local(t, oe, "T"), WithText))
        outlines == _findall_local(t, 0, "OE")
        RECURSIVE Each(_)
        Each(oes) == IF oes = <<>> THEN <<>>
                     ELSE OfOutline(Head(oes)) \o Each(Tail(oes))
    IN IF outlines # <<>> THEN Each(outlines)
       ELSE TextUnit(SelectSeq(_findall_local(t, 0, "T"), WithText))

\* _images_word / _images_pdf_enhanced: every Image of the page whose decoded
\* payload is not empty, whatever its length.
App_images(t) ==
    LET Accepted(el) == t.lab[el].img # "none"
        imgs == SelectSeq(_findall_local(t, 0, "Image"), Accepted)
    IN [k \in 1..Len(imgs) |-> Unit("image", imgs[k], <<>>)]

\* _parse_table_rows_clean: rows with a cell whose T descendants give text
\* (_extract_clean_cell_text reads T elements only).
App_parse_table_rows_clean(t, table_elem) ==
    LET WithText(el) == HasText(t, el)
        Keeps(row) ==
            \E c \in Range(_findall_local(t, row, "Cell")) :
                SelectSeq(_findall_local(t, c, "T"), WithText) # <<>>
    IN SelectSeq(_findall_local(t, table_elem, "Row"), Keeps)

\* _tables_word / _tables_pdf_enhanced: every Table of the page that has rows.
App_tables(t) ==
    LET HasRows(tb) == App_parse_table_rows_clean(t, tb) # <<>>
        tbs == SelectSeq(_findall_local(t, 0, "Table"), HasRows)
    IN [k \in 1..Len(tbs) |->
           Unit("table", tbs[k], App_parse_table_rows_clean(t, tbs[k]))]

\* The body both app.py renderers build: the text pass, the image pass when
\* include_images, the table pass.  (The attachment pass finds no InsertedFile
\* element in these trees and adds nothing.)
App_body(t, inc) ==
    App_write_text(t) \o (IF inc THEN App_images(t) ELSE <<>>) \o App_tables(t)

\* OneNoteContentParser.parse_page_to_docx
App_parse_page_to_docx ==
    /\ parser = "App"
    /\ docx_result = "none"
    /\ IF ~xml.ok
       THEN /\ docx_result' = "False"
            /\ UNCHANGED <<wordDoc, files, temp_files>>
       ELSE LET units == App_body(xml, include_images)
            IN /\ wordDoc' = <<Title>> \o units
               /\ temp_files' = temp_files \o TempOf(units)
               /\ \E saved \in BOOLEAN :
                     /\ docx_result' = Bool(saved)
                     /\ IF saved THEN files' = files \cup {"docx"}
                        ELSE \E partial \in BOOLEAN :
                                files' = IF partial THEN files \cup {"docx"} ELSE files
    /\ UNCHANGED <<parser, xml, include_images, pdfStory, pdf_result>>
    /\ UNCHANGED nonPageVars

\* OneNoteContentParser.parse_page_to_pdf
App_parse_page_to_pdf ==
    /\ parser = "App"
    /\ pdf_result = "none"
    /\ IF ~xml.ok
       THEN /\ pdf_result' = "False"
            /\ UNCHANGED <<pdfStory, files, temp_files>>
       ELSE LET units == App_body(xml, include_images)
            IN /\ pdfStory' = <<Title>> \o units
               /\ temp_files' = temp_files \o TempOf(units)
               /\ \E built \in BOOLEAN :
                     /\ pdf_result' = Bool(built)
                     /\ IF built THEN files' = files \cup {"pdf"}
                        ELSE \E partial \in BOOLEAN :
                                files' = IF partial THEN files \cup {"pdf"} ELSE files
    /\ UNCHANGED <<parser, xml, include_images, wordDoc, docx_result>>
    /\ UNCHANGED nonPageVars

-----------------------------------------------------------------------------
(* One page through one parser *)

\* No table extraction under way.
TableIdle ==
    /\ table = <<>>
    /\ rows_data = <<>>
    /\ unique_rows = <<>>
    /\ table_done = {}
    /\ table_render = [renderer |-> "none", grid |-> <<>>, cells |-> <<>>]

\* No format detection under way.
FormatIdle ==
    /\ data = <<>>
    /\ format_ext = "none"

\* No image handler under way.
ImageIdle ==
    /\ img_elem = <<>>
    /\ image_data = <<>>
    /\ image_out = <<>>
    /\ scan_decoded = {}
    /\ image_done = "none"

\* No text cleaning under way.
TextIdle ==
    /\ t_text = <<>>
    /\ clean_text = <<>>
    /\ text_done = "none"

\* No PDF table rendering under way.
PdfTableIdle ==
    /\ grid = <<>>
    /\ story = <<>>
    /\ pdf_table_done = "none"

\* No Word table rendering under way.
WordTableIdle ==
    /\ word_body = <<>>
    /\ word_table_done = "none"

\* No batch conversion under way.
BatchIdle ==
    /\ program = "Enhanced"
    /\ items = <<>>
    /\ w_status = "none"
    /\ w_pc = "none"
    /\ w_idx = 0
    /\ parser_temp = {}
    /\ disk_temp = {}
    /\ remove_failed = {}
    /\ attempted = {}
    /\ signals = {}
    /\ busy = FALSE
    /\ window = "open"
    /\ conversions = 0

\* No page with raising units under way.
UnitIdle ==
    /\ unit_parser = "Enhanced"
    /\ target = "docx"
    /\ page_units = <<>>
    /\ io_failure = "none"
    /\ rendered = <<>>
    /\ page_result = "none"

\* No text handler working out an indent.
IndentIdle ==
    /\ t_ancestors = <<>>
    /\ oe_lists = <<>>
    /\ indent_level = 0
    /\ left_indent = 0
    /\ indent_done = "none"

\* No picture being sized for the PDF.
SizeIdle ==
    /\ orig_width = 1
    /\ orig_height = 1
    /\ final_width = 0
    /\ final_height = 0
    /\ size_done = "none"

\* No tree build under way.
TreeIdle ==
    /\ nbs = [nb |-> 0, sec |-> 0, pg |-> 0]
    /\ pop_pc = 0
    /\ posted = <<>>
    /\ build_items = <<>>
    /\ build_index = 0
    /\ item_cache = {}
    /\ tree_items = <<>>
    /\ timer_active = FALSE
    /\ tree_busy = FALSE
    /\ build_finished = FALSE

\* No tree shown.
CheckIdle ==
    /\ shape = [nb |-> 0, sec |-> 0, pg |-> 0]
    /\ check_state = <<>>
    /\ toggled = <<>>

\* The window as constructed.
ButtonIdle ==
    /\ gui_busy = FALSE
    /\ gui_task = "none"
    /\ shown_pages = 0
    /\ selected = 0
    /\ dir_chosen = FALSE
    /\ convert_enabled = FALSE

\* No export run under way.
ExportIdle ==
    /\ out_items = <<>>
    /\ out_idx = 0
    /\ out_docx = FALSE
    /\ out_pdf = FALSE
    /\ out_files = <<>>
    /\ out_ok = {}

\* No page content asked for.
FetchIdle ==
    /\ fetch_app = FALSE
    /\ fetch_max = 0
    /\ fetch_attempt = 0
    /\ fetch_log = <<>>
    /\ fetch_pc = "none"
    /\ fetch_result = <<>>
    /\ fetch_files = {}

\* No page under way.
PageIdle ==
    /\ parser = "Enhanced"
    /\ xml = Malformed
    /\ include_images = FALSE
    /\ wordDoc = <<>>
    /\ pdfStory = <<>>
    /\ docx_result = "none"
    /\ pdf_result = "none"
    /\ files = {}
    /\ temp_files = <<>>

Init ==
    /\ FetchIdle
    /\ ExportIdle
    /\ ButtonIdle
    /\ CheckIdle
    /\ TreeIdle
    /\ SizeIdle
    /\ IndentIdle
    /\ UnitIdle
    /\ BatchIdle
    /\ WordTableIdle
    /\ TableIdle
    /\ FormatIdle
    /\ ImageIdle
    /\ TextIdle
    /\ PdfTableIdle
    /\ parser \in {"Enhanced", "App"}
    /\ xml \in PageTrees \cup BlockPages \cup {Malformed}
    /\ include_images \in BOOLEAN
    /\ wordDoc = <<>>
    /\ pdfStory = <<>>
    /\ docx_result = "none"
    /\ pdf_result = "none"
    /\ files = {}
    /\ temp_files = <<>>

Next ==
    \/ parse_page_to_docx
    \/ parse_page_to_pdf
    \/ App_parse_page_to_docx
    \/ App_parse_page_to_pdf

Spec == Init /\ [][Next]_vars


-----------------------------------------------------------------------------
(* Table extraction.  A Table element is a sequence of Row elements, a row a   *)
(* sequence of Cell elements.  A cell carries the text its T descendants give *)
(* (what _extract_cell_text_enhanced returns: trimmed, whitespace collapsed)  *)
(* and the values of its attributes colspan, COLSPAN and Colspan.  A text is  *)
(* a sequence of characters.                                                  *)

\* Largest number of rows / of cells per row of the tables enumerated in full.
MaxRows == 2
MaxCells == 2
\* Largest column span written in an attribute.
MaxSpan == 3

Texts == {<<>>, <<"A">>, <<"B">>}

\* An attribute value: absent (get() returns None), the empty string, an
\* integer literal, or some other text.
Absent == [kind |-> "absent", val |-> 0]
SpanValues ==
    {Absent, [kind |-> "empty", val |-> 0], [kind |-> "text", val |-> 0]}
    \cup {[kind |-> "int", val |-> k] : k \in (-1)..MaxSpan}
NoSpan == <<Absent, Absent, Absent>>

\* span: the values of colspan, COLSPAN, Colspan in this order.
Cell(text, span) == [text |-> text, span |-> span]
Plain(text) == Cell(text, NoSpan)

PlainRows == UNION {[1..n -> {Plain(x) : x \in Texts}] : n \in 0..MaxCells}
PlainTables == UNION {[1..m -> PlainRows] : m \in 0..MaxRows}

SpanCells == {Cell(<<"A">>, sp) : sp \in [1..3 -> SpanValues]}
SpanTables ==
    {<< <<c>> >> : c \in SpanCells}
    \cup {<< <<c, Plain(<<"B">>)>> >> : c \in SpanCells}
    \cup {<< <<Plain(<<"B">>), c>> >> : c \in SpanCells}

PlainRow(texts) == [k \in 1..Len(texts) |-> Plain(texts[k])]
A == <<"A">>
B == <<"B">>
C == <<"C">>
D == <<"D">>
SampleTables ==
    {<<PlainRow(<<A, B>>), PlainRow(<<A, B>>), PlainRow(<<C, D>>)>>,
     <<PlainRow(<<C, D>>), PlainRow(<<A, B>>), PlainRow(<<C, D>>)>>,
     <<PlainRow(<<A, B, C, D>>), PlainRow(<<A, B, C, A>>)>>,
     <<PlainRow(<<A, B, C>>), PlainRow(<<A, B>>), PlainRow(<<A, B, C, D>>)>>,
     <<PlainRow(<< <<"A", "|", "B">> >>), PlainRow(<<A, B>>)>>,
     <<PlainRow(<< <<>>, <<>>, <<>> >>), PlainRow(<< <<>>, <<>>, <<>>, A >>)>>,
     <<PlainRow(<<A>>), PlainRow(<< <<>> >>), PlainRow(<<B>>), PlainRow(<<A>>)>>}

TableInputs == PlainTables \cup SpanTables \cup SampleTables

\* int(value) of a span attribute: the integer, or ValueError.
IsInt(v) == v.kind = "int"

\* _get_cell_span(cell_elem, 'colspan'): the first variant with a non-empty
\* value decides; int() of it, or 1 when int() raises; 1 without any.
_get_cell_span(cell_elem) ==
    LET Truthy(v) == v.kind \in {"int", "text"}
        found == SelectSeq(cell_elem.span, Truthy)
    IN IF found = <<>> THEN 1
       ELSE IF IsInt(Head(found)) THEN Head(found).val
       ELSE 1

\* [''] * n, empty when n <= 0 (range(colspan - 1)).
Blanks(n) == IF n <= 0 THEN <<>> ELSE [k \in 1..n |-> <<>>]

\* CellEntries with range(colspan) in place of range(colspan - 1).
CellEntries_OneBlankTooMany(cell_elem) ==
    <<cell_elem.text>> \o Blanks(_get_cell_span(cell_elem))

\* Lines 465-476: the cell's text, then colspan - 1 empty cells.
CellEntries(cell_elem) ==
    <<cell_elem.text>> \o Blanks(_get_cell_span(cell_elem) - 1)

RECURSIVE RowData(_)
\* row_data of one Row element.
RowData(cells) ==
    IF cells = <<>> THEN <<>>
    ELSE CellEntries(Head(cells)) \o RowData(Tail(cells))

RECURSIVE JoinBar(_)
\* '|'.join(texts)
JoinBar(texts) ==
    IF texts = <<>> THEN <<>>
    ELSE IF Len(texts) = 1 THEN Head(texts)
    ELSE Head(texts) \o <<"|">> \o JoinBar(Tail(texts))

\* row_signature over the whole row instead of its first three cells.
row_signature_WholeRow(row_data) == JoinBar(row_data)

\* Line 479.
row_signature(row_data) ==
    IF Len(row_data) >= 3 THEN JoinBar(SubSeq(row_data, 1, 3))
    ELSE JoinBar(row_data)

\* row_data and any(cell.strip() for cell in row_data)
NonBlank(row_data) ==
    row_data # <<>> /\ \E k \in 1..Len(row_data) : row_data[k] # <<>>

RECURSIVE ExtractLoop(_, _, _)
\* The loop of lines 459-485 with its set seen_row_signatures.
ExtractLoop(row_elements, seen, rows) ==
    IF row_elements = <<>> THEN rows
    ELSE LET row_data == RowData(Head(row_elements))
             sig == row_signature(row_data)
         IN IF NonBlank(row_data) /\ sig \notin seen
            THEN ExtractLoop(Tail(row_elements), seen \cup {sig},
                             Append(rows, row_data))
            ELSE ExtractLoop(Tail(row_elements), seen, rows)

_extract_table_data_enhanced(table_elem) == ExtractLoop(table_elem, {}, <<>>)

\* app.py _parse_table_rows_clean: the cell texts of each row (no span
\* handling), rows without a non-blank cell left out.
App_parse_table_rows(table_elem) ==
    LET Texts_(cells) == [k \in 1..Len(cells) |-> cells[k].text]
        all == [r \in 1..Len(table_elem) |-> Texts_(table_elem[r])]
    IN SelectSeq(all, NonBlank)

RECURSIVE App_UniqueLoop(_, _, _)
\* app.py lines 614-621 (and 1079-1086): the key is the whole row.
App_UniqueLoop(rows, seen_rows, out) ==
    IF rows = <<>> THEN out
    ELSE LET row_key == JoinBar(Head(rows))
         IN IF row_key \notin seen_rows
            THEN App_UniqueLoop(Tail(rows), seen_rows \cup {row_key},
                                Append(out, Head(rows)))
            ELSE App_UniqueLoop(Tail(rows), seen_rows, out)

App_unique_rows(table_elem) ==
    App_UniqueLoop(App_parse_table_rows(table_elem), {}, <<>>)

\* EnhancedOneNoteContentParser._extract_table_data_enhanced on the table.
ExtractTableEnhanced ==
    /\ "Enhanced" \notin table_done
    /\ table_done' = table_done \cup {"Enhanced"}
    /\ rows_data' = _extract_table_data_enhanced(table)
    /\ UNCHANGED <<table, unique_rows, table_render>>
    /\ UNCHANGED nonTableVars

\* OneNoteContentParser._tables_word up to unique_rows, on the table.
App_TablesUnique ==
    /\ "App" \notin table_done
    /\ table_done' = table_done \cup {"App"}
    /\ unique_rows' = App_unique_rows(table)
    /\ UNCHANGED <<table, rows_data, table_render>>
    /\ UNCHANGED nonTableVars

\* max(len(row) for row in rows) if rows else 1
max_cols_of(rows) ==
    IF rows = <<>> THEN 1
    ELSE CHOOSE n \in {Len(rows[k]) : k \in 1..Len(rows)} :
            \A k \in 1..Len(rows) : Len(rows[k]) <= n

\* The row handed on as it is.
normalized_row_Unpadded(row, n) == row

\* row + [''] * (max_cols - len(row))
normalized_row(row, n) == row \o Blanks(n - Len(row))

\* doc.add_table(rows=len(rows), cols=ncols) and the fill loop: cell (i, j)
\* gets rows[i][j] for j within the row and the column limit, the other cells
\* keep the empty text they were created with.
word_table_cells(rows, cols_limit, ncols) ==
    [i \in 1..Len(rows) |->
        [j \in 1..ncols |->
            IF j <= Min(cols_limit, Len(rows[i])) THEN rows[i][j] ELSE <<>>]]

\* What a renderer did: the grid it got from the extraction and the cells of
\* the table it built (no table for an empty grid).
Render(name, rows, cells) ==
    [renderer |-> name, grid |-> rows,
     cells |-> IF rows = <<>> THEN <<>> ELSE cells]

\* EnhancedOneNoteContentParser._process_table_for_word on the table.
_process_table_for_word_cells ==
    /\ table_render.renderer = "none"
    /\ LET rows == _extract_table_data_enhanced(table)
       IN table_render' =
             Render("_process_table_for_word", rows,
                    word_table_cells(rows, max_cols_of(rows), max_cols_of(rows)))
    /\ UNCHANGED <<table, rows_data, unique_rows, table_done>>
    /\ UNCHANGED nonTableVars

\* EnhancedOneNoteContentParser._process_table_for_pdf on the table: the rows
\* of normalized_rows become the rows of the Table flowable.
_process_table_for_pdf_cells ==
    /\ table_render.renderer = "none"
    /\ LET rows == _extract_table_data_enhanced(table)
       IN table_render' =
             Render("_process_table_for_pdf", rows,
                    [i \in 1..Len(rows) |->
                        normalized_row(rows[i], max_cols_of(rows))])
    /\ UNCHANGED <<table, rows_data, unique_rows, table_done>>
    /\ UNCHANGED nonTableVars

\* OneNoteContentParser._tables_word on the table (first pass): a table of
\* more than 12 columns shows its first 8.
App_tables_word_cells ==
    /\ table_render.renderer = "none"
    /\ LET rows == App_unique_rows(table)
           cols_to_show == IF max_cols_of(rows) > 12 THEN Min(8, max_cols_of(rows))
                           ELSE max_cols_of(rows)
       IN table_render' =
             Render("App_tables_word", rows,
                    word_table_cells(rows, cols_to_show, cols_to_show))
    /\ UNCHANGED <<table, rows_data, unique_rows, table_done>>
    /\ UNCHANGED nonTableVars

\* OneNoteContentParser._tables_pdf_enhanced on the table, up to the padded
\* cleaned_rows its segments are cut from.
App_tables_pdf_cells ==
    /\ table_render.renderer = "none"
    /\ LET rows == App_unique_rows(table)
       IN table_render' =
             Render("App_tables_pdf_enhanced", rows,
                    [i \in 1..Len(rows) |->
                        rows[i] \o Blanks(max_cols_of(rows) - Len(rows[i]))])
    /\ UNCHANGED <<table, rows_data, unique_rows, table_done>>
    /\ UNCHANGED nonTableVars

InitTable ==
    /\ FetchIdle
    /\ ExportIdle
    /\ ButtonIdle
    /\ CheckIdle
    /\ TreeIdle
    /\ SizeIdle
    /\ IndentIdle
    /\ UnitIdle
    /\ BatchIdle
    /\ WordTableIdle
    /\ PageIdle
    /\ FormatIdle
    /\ ImageIdle
    /\ TextIdle
    /\ PdfTableIdle
    /\ table \in TableInputs
    /\ rows_data = <<>>
    /\ unique_rows = <<>>
    /\ table_done = {}
    /\ table_render = [renderer |-> "none", grid |-> <<>>, cells |-> <<>>]

NextTable == ExtractTableEnhanced \/ App_TablesUnique

SpecTable == InitTable /\ [][NextTable]_vars

\* One table through one of the four table renderers.
NextTableRender ==
    \/ _process_table_for_word_cells
    \/ _process_table_for_pdf_cells
    \/ App_tables_word_cells
    \/ App_tables_pdf_cells

SpecTableRender == InitTable /\ [][NextTableRender]_vars


-----------------------------------------------------------------------------
(* Image format detection.  A byte string is a sequence of numbers 0..255.    *)

\* Longest byte string of the enumerated ones, and longest tail put after a
\* signature.
MaxBytes == 4
MaxTail == 1

\* self.supported_image_extensions, in the order of the dict literal (the
\* order in which _detect_image_format walks it).
supported_image_extensions == <<
    [signature |-> <<255, 216, 255>>,                  ext |-> ".jpg"],
    [signature |-> <<137, 80, 78, 71, 13, 10, 26, 10>>, ext |-> ".png"],
    [signature |-> <<71, 73, 70, 56, 55, 97>>,         ext |-> ".gif"],
    [signature |-> <<71, 73, 70, 56, 57, 97>>,         ext |-> ".gif"],
    [signature |-> <<0, 0, 1, 0>>,                     ext |-> ".ico"],
    [signature |-> <<66, 77>>,                         ext |-> ".bmp"],
    [signature |-> <<82, 73, 70, 70>>,                 ext |-> ".webp"] >>

Signatures ==
    {supported_image_extensions[i].signature :
        i \in 1..Len(supported_image_extensions)}

\* b'RIFF' and b'WEBP'
RIFF == <<82, 73, 70, 70>>
WEBP == <<87, 69, 66, 80>>

\* bytes.startswith(prefix)
startswith(bytes, prefix) ==
    /\ Len(bytes) >= Len(prefix)
    /\ SubSeq(bytes, 1, Len(prefix)) = prefix

\* sub in bytes[:limit]
InFirst(sub, bytes, limit) ==
    LET head == SubSeq(bytes, 1, Min(limit, Len(bytes)))
    IN \E k \in 1..Len(head) :
          /\ k + Len(sub) - 1 <= Len(head)
          /\ SubSeq(head, k, k + Len(sub) - 1) = sub

\* The slice length of data[:12].
RiffHeaderLen == 12

_detect_image_format_DefaultJpg(bytes) ==
    LET hits == {i \in 1..Len(supported_image_extensions) :
                    startswith(bytes, supported_image_extensions[i].signature)}
    IN IF hits # {}
       THEN supported_image_extensions[
                CHOOSE i \in hits : \A j \in hits : i <= j].ext
       ELSE ".jpg"

\* EnhancedOneNoteContentParser._detect_image_format
_detect_image_format(bytes) ==
    LET hits == {i \in 1..Len(supported_image_extensions) :
                    startswith(bytes, supported_image_extensions[i].signature)}
    IN IF hits # {}
       THEN supported_image_extensions[
                CHOOSE i \in hits : \A j \in hits : i <= j].ext
       ELSE IF startswith(bytes, RIFF) /\ InFirst(WEBP, bytes, RiffHeaderLen)
            THEN ".webp"
            ELSE ".png"

\* The byte values the enumerated strings are made of: those of the .jpg and
\* .bmp signatures and two that open no signature.
FormatBytes == {255, 216, 66, 77, 1}

SeqsUpTo(S, n) == UNION {[1..k -> S] : k \in 0..n}

\* Every proper prefix of a signature.
SignaturePrefixes ==
    UNION {{SubSeq(sig, 1, k) : k \in 0..(Len(sig) - 1)} : sig \in Signatures}
        \ Signatures

\* The byte strings given to the detector: every short string, every
\* signature followed by a short tail, every cut-off signature, and a RIFF
\* header with and without the WEBP mark.
FormatInputs ==
    SeqsUpTo(FormatBytes, MaxBytes)
    \cup {sig \o tail : sig \in Signatures, tail \in SeqsUpTo(FormatBytes, MaxTail)}
    \cup SignaturePrefixes
    \cup {RIFF \o <<1, 1, 1, 1>> \o WEBP, RIFF \o <<1, 1, 1, 1>> \o RIFF}

\* format_ext = self._detect_image_format(data)
DetectImageFormat ==
    /\ format_ext = "none"
    /\ format_ext' = _detect_image_format(data)
    /\ UNCHANGED data
    /\ UNCHANGED nonFormatVars

InitFormat ==
    /\ FetchIdle
    /\ ExportIdle
    /\ ButtonIdle
    /\ CheckIdle
    /\ TreeIdle
    /\ SizeIdle
    /\ IndentIdle
    /\ UnitIdle
    /\ BatchIdle
    /\ WordTableIdle
    /\ PageIdle
    /\ TableIdle
    /\ ImageIdle
    /\ TextIdle
    /\ PdfTableIdle
    /\ data \in FormatInputs
    /\ format_ext = "none"

NextFormat == DetectImageFormat

SpecFormat == InitFormat /\ [][NextFormat]_vars

-----------------------------------------------------------------------------
(* Image extraction.  An Image element carries up to three base64 texts: the  *)
(* value of its attribute 'data', the text of a child whose tag holds 'Data', *)
(* and the text of a deeper descendant.  A base64 text is given by its number *)
(* of 4-character groups, the number of '=' that end it, the first bytes it   *)
(* decodes to, whether the decoded bytes are a picture the document libraries *)
(* can read, and where it holds a character outside the base64 alphabet (a    *)
(* line break inside the text): nowhere, among its first 100 characters, or   *)
(* after them.                                                                *)

\* len(data) > 100 and len(text) > 100
MinImageBytes == 100

\* How far, in 4-character groups, the payload lengths reach on either side
\* of the 100-byte limit.
Spread == 1

\* 3 * q bytes is the largest length not above the limit for q = 33.
Quads ==
    ((MinImageBytes \div 3) - Spread + 1) .. ((MinImageBytes \div 3) + Spread)

PngSignature == supported_image_extensions[2].signature

\* A text that is not there (attribute missing, element without text).
NoPayload ==
    [present |-> FALSE, valid |-> FALSE, quads |-> 0, pad |-> 0,
     head |-> <<>>, picture |-> FALSE, stray |-> "none"]

\* A text base64.b64decode raises on (one character beyond a full group).
BadPadding ==
    [present |-> TRUE, valid |-> FALSE, quads |-> MinImageBytes \div 3,
     pad |-> 0, head |-> <<>>, picture |-> FALSE, stray |-> "none"]

\* The first bytes of a decoded text, and whether the whole is a readable
\* picture: a PNG file, bytes cut off after a PNG signature, other bytes.
Contents ==
    {[head |-> PngSignature, picture |-> TRUE],
     [head |-> PngSignature, picture |-> FALSE],
     [head |-> <<1, 1, 1, 1>>, picture |-> FALSE]}

Payloads ==
    {NoPayload, BadPadding}
    \cup {[present |-> TRUE, valid |-> TRUE, quads |-> q, pad |-> p,
           head |-> c.head, picture |-> c.picture, stray |-> "none"] :
            q \in Quads, p \in 0..2, c \in Contents}

\* 4 * q characters is a text of exactly 100 characters for q = 25.
ScanQuads ==
    ((MinImageBytes \div 4) - Spread) .. ((MinImageBytes \div 4) + Spread)

\* Texts of about 100 characters, all of the base64 alphabet.
ShortTexts ==
    {[present |-> TRUE, valid |-> TRUE, quads |-> q, pad |-> 0,
      head |-> PngSignature, picture |-> FALSE, stray |-> "none"] :
        q \in ScanQuads}

\* Texts with one character outside the base64 alphabet.
StrayTexts ==
    {[present |-> TRUE, valid |-> TRUE, quads |-> q, pad |-> 0,
      head |-> PngSignature, picture |-> pic, stray |-> st] :
        q \in Quads, pic \in BOOLEAN, st \in {"early", "late"}}

\* The texts the subtree scan meets below the children.
ScanPayloads == Payloads \cup ShortTexts \cup StrayTexts

ImageElements == [data : Payloads, child : Payloads, descendant : ScanPayloads]

\* len(text)
TextLen(pl) ==
    4 * pl.quads + (IF pl.valid THEN 0 ELSE 1)
                 + (IF pl.stray = "none" THEN 0 ELSE 1)

\* len(base64.b64decode(text)): three bytes a group, less one for each '='.
DecodedLen(pl) == 3 * pl.quads - pl.pad

\* base64.b64decode(text): the bytes, as length, first bytes and readability.
b64decode(pl) ==
    [found |-> TRUE, len |-> DecodedLen(pl), head |-> pl.head,
     picture |-> pl.picture, format_ext |-> ".png"]

\* return None / data = None
NoImage ==
    [found |-> FALSE, len |-> 0, head |-> <<>>, picture |-> FALSE,
     format_ext |-> "none"]

\* _looks_like_base64 with the alphabet test on every character of the text.
_looks_like_base64_WholeText(pl) ==
    IF TextLen(pl) < MinImageBytes THEN FALSE
    ELSE pl.stray = "none"

\* _looks_like_base64: False below 100 characters, else whether each of
\* text[:100] is of the base64 alphabet.
_looks_like_base64(pl) ==
    IF TextLen(pl) < MinImageBytes THEN FALSE
    ELSE pl.stray # "early"

\* The test of stages 1 and 2: the text is there, decodes, and gives more
\* than 100 bytes.
Decodes(pl) == pl.present /\ pl.valid

LongEnough(pl) == DecodedLen(pl) > MinImageBytes

\* Stage 3 passes the text to base64.b64decode.
Stage3Decodes(pl) ==
    /\ pl.present
    /\ TextLen(pl) > MinImageBytes
    /\ _looks_like_base64(pl)

\* The test of stage 3.
Stage3(pl) ==
    /\ Stage3Decodes(pl)
    /\ pl.valid
    /\ LongEnough(pl)

Returned(pl) ==
    [b64decode(pl) EXCEPT !.format_ext = _detect_image_format(pl.head)]

\* The extraction with the children read before the attributes.
_extract_image_data_enhanced_ChildFirst(elem) ==
    IF Decodes(elem.child) /\ LongEnough(elem.child) THEN Returned(elem.child)
    ELSE IF Decodes(elem.data) /\ LongEnough(elem.data)
         THEN Returned(elem.data)
    ELSE IF Stage3(elem.child) THEN Returned(elem.child)
    ELSE IF Stage3(elem.descendant) THEN Returned(elem.descendant)
    ELSE NoImage

\* EnhancedOneNoteContentParser._extract_image_data_enhanced
_extract_image_data_enhanced(elem) ==
    IF Decodes(elem.data) /\ LongEnough(elem.data) THEN Returned(elem.data)
    ELSE IF Decodes(elem.child) /\ LongEnough(elem.child)
         THEN Returned(elem.child)
    ELSE IF Stage3(elem.child) THEN Returned(elem.child)
    ELSE IF Stage3(elem.descendant) THEN Returned(elem.descendant)
    ELSE NoImage

\* The texts stage 3 of _extract_image_data_enhanced passes to b64decode: none
\* when stage 1 or 2 returned; else the child's, and the deeper descendant's
\* unless the child's text made the scan return.
Stage3Decoded(elem) ==
    IF (Decodes(elem.data) /\ LongEnough(elem.data))
       \/ (Decodes(elem.child) /\ LongEnough(elem.child))
    THEN {}
    ELSE (IF Stage3Decodes(elem.child) THEN {"child"} ELSE {})
         \cup (IF ~Stage3(elem.child) /\ Stage3Decodes(elem.descendant)
                THEN {"descendant"} ELSE {})

\* The picture step of both V3.7 handlers: doc.add_picture / RLImage get the
\* temp file; bytes the library cannot read raise, which is caught and logged.
Rendered(image) ==
    IF image.found /\ image.picture THEN <<image>> ELSE <<>>

\* EnhancedOneNoteContentParser._process_image_for_word
_process_image_for_word ==
    /\ image_done = "none"
    /\ image_done' = "_process_image_for_word"
    /\ image_data' = _extract_image_data_enhanced(img_elem)
    /\ scan_decoded' = Stage3Decoded(img_elem)
    /\ image_out' = Rendered(image_data')
    /\ UNCHANGED img_elem
    /\ UNCHANGED nonImageVars

\* EnhancedOneNoteContentParser._process_image_for_pdf
_process_image_for_pdf ==
    /\ image_done = "none"
    /\ image_done' = "_process_image_for_pdf"
    /\ image_data' = _extract_image_data_enhanced(img_elem)
    /\ scan_decoded' = Stage3Decoded(img_elem)
    /\ image_out' = Rendered(image_data')
    /\ UNCHANGED img_elem
    /\ UNCHANGED nonImageVars

\* app.py: the extraction lines of _images_word and _images_pdf_enhanced.
\* The first attribute that decodes ends the attribute loop; the children are
\* read only if nothing came of the attributes.
App_image_data(elem) ==
    IF Decodes(elem.data) THEN b64decode(elem.data)
    ELSE IF Decodes(elem.child) THEN b64decode(elem.child)
    ELSE NoImage

\* OneNoteContentParser._images_word, for one Image element
App_images_word ==
    /\ image_done = "none"
    /\ image_done' = "App_images_word"
    /\ image_data' = App_image_data(img_elem)
    /\ scan_decoded' = {}
    /\ image_out' = Rendered(image_data')
    /\ UNCHANGED img_elem
    /\ UNCHANGED nonImageVars

\* OneNoteContentParser._images_pdf_enhanced, for one Image element
App_images_pdf_enhanced ==
    /\ image_done = "none"
    /\ image_done' = "App_images_pdf_enhanced"
    /\ image_data' = App_image_data(img_elem)
    /\ scan_decoded' = {}
    /\ image_out' = Rendered(image_data')
    /\ UNCHANGED img_elem
    /\ UNCHANGED nonImageVars

InitImage ==
    /\ FetchIdle
    /\ ExportIdle
    /\ ButtonIdle
    /\ CheckIdle
    /\ TreeIdle
    /\ SizeIdle
    /\ IndentIdle
    /\ UnitIdle
    /\ BatchIdle
    /\ WordTableIdle
    /\ PageIdle
    /\ TableIdle
    /\ FormatIdle
    /\ TextIdle
    /\ PdfTableIdle
    /\ img_elem \in ImageElements
    /\ image_data = <<>>
    /\ image_out = <<>>
    /\ scan_decoded = {}
    /\ image_done = "none"

NextImage ==
    \/ _process_image_for_word
    \/ _process_image_for_pdf
    \/ App_images_word
    \/ App_images_pdf_enhanced

SpecImage == InitImage /\ [][NextImage]_vars

-----------------------------------------------------------------------------
(* Text cleaning.  A text is a sequence of characters; a character is written *)
(* as a one-character string, or by its code point ("U+2013") when it is not  *)
(* ASCII.                                                                     *)

\* Longest text of the enumerated ones.  The shortest texts in which
\* unescaping makes a tag have five characters (&ltt> and <t&gt).
MaxLen == 5

Max(S) == CHOOSE x \in S : \A y \in S : y <= x

\* html.entities.html5, the table html.unescape looks names up in, cut down
\* to the names that can be spelled with the characters of the modelled
\* texts (l t g b H i / > and ;).
html5 ==
    {[name |-> <<"l", "t">>,           value |-> "<"],
     [name |-> <<"l", "t", ";">>,      value |-> "<"],
     [name |-> <<"g", "t">>,           value |-> ">"],
     [name |-> <<"g", "t", ";">>,      value |-> ">"],
     [name |-> <<"g", "g", ";">>,      value |-> "U+226B"],
     [name |-> <<"g", "g", "g", ";">>, value |-> "U+22D9"],
     [name |-> <<"g", "l", ";">>,      value |-> "U+2277"],
     [name |-> <<"l", "g", ";">>,      value |-> "U+2276"],
     [name |-> <<"l", "l", ";">>,      value |-> "U+226A"],
     [name |-> <<"i", "i", ";">>,      value |-> "U+2148"],
     [name |-> <<"i", "t", ";">>,      value |-> "U+2062"]}

html5_names == {e.name : e \in html5}

html5_value(name) == (CHOOSE e \in html5 : e.name = name).value

\* The characters a named reference is made of: [^\t\n\f <&#;]
NameChar(c) == c \notin {"\t", "\n", "\f", " ", "<", "&", "#", ";"}

\* The number of leading name characters of s.
RECURSIVE NameRun(_)
NameRun(s) ==
    IF s # <<>> /\ NameChar(Head(s)) THEN 1 + NameRun(Tail(s)) ELSE 0

\* What html.unescape puts for the reference &ref: the character of the
\* name, else the character of the longest proper prefix that is a name
\* followed by the rest, else the reference as it stands.
replace_charref(ref) ==
    LET cuts == {x \in 2..(Len(ref) - 1) : SubSeq(ref, 1, x) \in html5_names}
    IN IF ref \in html5_names THEN <<html5_value(ref)>>
       ELSE IF cuts # {}
            THEN <<html5_value(SubSeq(ref, 1, Max(cuts)))>>
                 \o SubSeq(ref, Max(cuts) + 1, Len(ref))
            ELSE <<"&">> \o ref

\* html.unescape(text), for texts without numeric references.
RECURSIVE unescape(_)
unescape(text) ==
    IF text = <<>> THEN <<>>
    ELSE IF Head(text) = "&" /\ NameRun(Tail(text)) > 0
         THEN LET rest == Tail(text)
                  n == NameRun(rest)
                  m == IF n < Len(rest) /\ rest[n + 1] = ";" THEN n + 1 ELSE n
              IN replace_charref(SubSeq(rest, 1, m))
                 \o unescape(SubSeq(rest, m + 1, Len(rest)))
         ELSE <<Head(text)>> \o unescape(Tail(text))

\* re.sub(r'<[^>]+>', '', text): from the left, a '<' followed by at least one
\* character other than '>' and then a '>' is removed up to that first '>'.
RECURSIVE StripTags(_)
StripTags(text) ==
    IF text = <<>> THEN <<>>
    ELSE IF /\ Head(text) = "<"
            /\ Len(text) >= 3
            /\ text[2] # ">"
            /\ \E j \in 3..Len(text) : text[j] = ">"
         THEN LET close == CHOOSE j \in 3..Len(text) :
                              /\ text[j] = ">"
                              /\ \A k \in 3..(j - 1) : text[k] # ">"
              IN StripTags(SubSeq(text, close + 1, Len(text)))
         ELSE <<Head(text)>> \o StripTags(Tail(text))

\* The chain of text.replace calls of _clean_text_content, character by
\* character ('•' -> the same bullet, '—' -> the same dash).
SpecialChar(c) ==
    CASE c = "U+2013" -> "-"
      [] c \in {"U+201C", "U+201D"} -> "\""
      [] c \in {"U+2018", "U+2019"} -> "'"
      [] OTHER -> c

ReplaceSpecial(text) == [k \in 1..Len(text) |-> SpecialChar(text[k])]

\* [\t\x0b\x0c]
TabLike == {"\t", "U+000B", "\f"}

RECURSIVE DropWhile(_, _)
DropWhile(text, S) ==
    IF text # <<>> /\ Head(text) \in S THEN DropWhile(Tail(text), S) ELSE text

\* re.sub(r'[\t\x0b\x0c]+', ' ', text)
RECURSIVE TabsToSpace(_)
TabsToSpace(text) ==
    IF text = <<>> THEN <<>>
    ELSE IF Head(text) \in TabLike
         THEN <<" ">> \o TabsToSpace(DropWhile(text, TabLike))
         ELSE <<Head(text)>> \o TabsToSpace(Tail(text))

\* The characters str.strip() removes, among the modelled ones.
Whitespace == {" ", "\t", "\n", "\r", "\f", "U+000B"}

Reverse(text) == [k \in 1..Len(text) |-> text[Len(text) + 1 - k]]

\* text.strip()
strip(text) == Reverse(DropWhile(Reverse(DropWhile(text, Whitespace)), Whitespace))

\* text.replace('\r\n', '\n').replace('\r', '\n')
RECURSIVE NormalizeNewlines(_)
NormalizeNewlines(text) ==
    IF text = <<>> THEN <<>>
    ELSE IF Head(text) = "\r" /\ Len(text) >= 2 /\ text[2] = "\n"
         THEN <<"\n">> \o NormalizeNewlines(Tail(Tail(text)))
    ELSE IF Head(text) = "\r" THEN <<"\n">> \o NormalizeNewlines(Tail(text))
    ELSE <<Head(text)>> \o NormalizeNewlines(Tail(text))

_clean_text_content_StripBeforeUnescape(text) ==
    IF text = <<>> THEN <<>>
    ELSE strip(TabsToSpace(ReplaceSpecial(unescape(StripTags(text)))))

\* EnhancedOneNoteContentParser._clean_text_content
_clean_text_content(text) ==
    IF text = <<>> THEN <<>>
    ELSE strip(TabsToSpace(ReplaceSpecial(StripTags(unescape(text)))))

\* OneNoteContentParser._clean_text_for_pdf
App_clean_text_for_pdf(text) ==
    IF text = <<>> THEN <<>>
    ELSE strip(TabsToSpace(NormalizeNewlines(StripTags(unescape(text)))))

\* The characters of the enumerated texts: what the references &lt; and &gt;
\* and a tag are made of, and a tab.
TextChars == {"&", "l", "t", "g", ";", "<", ">", "\t"}

\* &lt;b&gt;Hi&lt;/b&gt;
EscapedBoldHi ==
    <<"&", "l", "t", ";", "b", "&", "g", "t", ";", "H", "i",
      "&", "l", "t", ";", "/", "b", "&", "g", "t", ";">>

\* Texts with the characters the later steps of the cleaners act on.
SampleTexts ==
    {EscapedBoldHi,
     <<"<", "b", ">", "H", "i", "<", "/", "b", ">">>,
     <<" ", "H", "\t", "\f", "i", "\r", "\n", "U+2013", "\r", "i", "\n">>,
     <<"&", "i", "t", ";", "U+201C", "H", "U+2019", "i", "U+201D", "&", "l", "t">>,
     <<"H", " ", " ", "i">>,
     <<"H", "\n", "\n", "i">>,
     <<"H", "\t", " ", "\t", "i">>}

TextInputs == SeqsUpTo(TextChars, MaxLen) \cup SampleTexts

\* clean_text = self._clean_text_content(t_elem.text)
CleanTextContent ==
    /\ text_done = "none"
    /\ text_done' = "_clean_text_content"
    /\ clean_text' = _clean_text_content(t_text)
    /\ UNCHANGED t_text
    /\ UNCHANGED nonTextVars

\* text = self._clean_text_for_pdf(t.text)
App_CleanTextForPdf ==
    /\ text_done = "none"
    /\ text_done' = "_clean_text_for_pdf"
    /\ clean_text' = App_clean_text_for_pdf(t_text)
    /\ UNCHANGED t_text
    /\ UNCHANGED nonTextVars

InitText ==
    /\ FetchIdle
    /\ ExportIdle
    /\ ButtonIdle
    /\ CheckIdle
    /\ TreeIdle
    /\ SizeIdle
    /\ IndentIdle
    /\ UnitIdle
    /\ BatchIdle
    /\ WordTableIdle
    /\ PageIdle
    /\ TableIdle
    /\ FormatIdle
    /\ ImageIdle
    /\ PdfTableIdle
    /\ t_text \in TextInputs
    /\ clean_text = <<>>
    /\ text_done = "none"

NextText == CleanTextContent \/ App_CleanTextForPdf

SpecText == InitText /\ [][NextText]_vars

-----------------------------------------------------------------------------
(* Tables in the PDF.  The rows a renderer works on, after its extraction and *)
(* its removal of repeated rows, are given by their number and by the number  *)
(* of cells of the widest row; a row is padded to that width before it is     *)
(* rendered.  Columns are numbered from 1.  The story is the sequence of      *)
(* flowables the renderer appends, spacers left out.                          *)

\* MAX_ROWS = 120
MAX_ROWS == 120

\* Widest table, largest of the small row counts, and how far the large row
\* counts reach on either side of MAX_ROWS.
MaxCols == 16
MaxFewRows == 2
RowSpread == 1

RowCounts ==
    (1..MaxFewRows) \cup ((MAX_ROWS - RowSpread)..(MAX_ROWS + RowSpread))

Grids == [rows : RowCounts, cols : 1..MaxCols]

\* A flowable of the story: a segment title, a table of `rows` rows holding
\* the columns first_col..last_col, or the truncation note.
Flowable(kind, first_col, last_col, rows) ==
    [kind |-> kind, first_col |-> first_col, last_col |-> last_col,
     rows |-> rows]

\* EnhancedOneNoteContentParser._process_table_for_pdf: one Table flowable of
\* all normalized rows and max_cols columns.
_process_table_for_pdf_story(rows_count, max_cols) ==
    <<Flowable("table", 1, max_cols, rows_count)>>

\* app.py: the choice of MAX_COLS_PER_SEGMENT.
App_MAX_COLS_PER_SEGMENT(max_cols) ==
    IF max_cols <= 8 THEN max_cols
    ELSE IF max_cols <= 12 THEN 8
    ELSE 6

\* app.py: col_segments = list(range(0, max_cols, MAX_COLS_PER_SEGMENT))
App_col_segments(max_cols) ==
    LET size == App_MAX_COLS_PER_SEGMENT(max_cols)
    IN [k \in 1..((max_cols + size - 1) \div size) |-> (k - 1) * size]

\* app.py: what the segment loop appends for the segments from seg_idx on
\* (seg_idx counts from 1 here): a title when the table is split, then the
\* table of the segment's columns.
RECURSIVE App_segments_story(_, _, _)
App_segments_story(seg_idx, rows_count, max_cols) ==
    LET col_segments == App_col_segments(max_cols)
    IN IF seg_idx > Len(col_segments) THEN <<>>
       ELSE LET start_col == col_segments[seg_idx]
                end_col == Min(start_col + App_MAX_COLS_PER_SEGMENT(max_cols),
                               max_cols)
                title == IF Len(col_segments) > 1 /\ max_cols > 8
                         THEN <<Flowable("title", start_col + 1, end_col, 0)>>
                         ELSE <<>>
            IN title
               \o <<Flowable("table", start_col + 1, end_col, rows_count)>>
               \o App_segments_story(seg_idx + 1, rows_count, max_cols)

\* OneNoteContentParser._tables_pdf_enhanced for one table, from the padded
\* rows on: the row limit, the segments, the note.
App_tables_pdf_enhanced_story(rows_count, max_cols) ==
    LET truncated == rows_count > MAX_ROWS
        kept == IF truncated THEN MAX_ROWS ELSE rows_count
    IN App_segments_story(1, kept, max_cols)
       \o (IF truncated THEN <<Flowable("note", 0, 0, 0)>> ELSE <<>>)

\* self._process_table_for_pdf(table_elem, story, normal_style)
ProcessTableForPdf ==
    /\ pdf_table_done = "none"
    /\ pdf_table_done' = "_process_table_for_pdf"
    /\ story' = story \o _process_table_for_pdf_story(grid.rows, grid.cols)
    /\ UNCHANGED grid
    /\ UNCHANGED nonPdfTableVars

\* self._tables_pdf_enhanced(root, story)
App_TablesPdfEnhanced ==
    /\ pdf_table_done = "none"
    /\ pdf_table_done' = "_tables_pdf_enhanced"
    /\ story' = story \o App_tables_pdf_enhanced_story(grid.rows, grid.cols)
    /\ UNCHANGED grid
    /\ UNCHANGED nonPdfTableVars

InitPdfTable ==
    /\ FetchIdle
    /\ ExportIdle
    /\ ButtonIdle
    /\ CheckIdle
    /\ TreeIdle
    /\ SizeIdle
    /\ IndentIdle
    /\ UnitIdle
    /\ BatchIdle
    /\ WordTableIdle
    /\ PageIdle
    /\ TableIdle
    /\ FormatIdle
    /\ ImageIdle
    /\ TextIdle
    /\ grid \in Grids
    /\ story = <<>>
    /\ pdf_table_done = "none"

NextPdfTable == ProcessTableForPdf \/ App_TablesPdfEnhanced

SpecPdfTable == InitPdfTable /\ [][NextPdfTable]_vars

-----------------------------------------------------------------------------
(* Tables in the Word document.  The table is given as for the PDF (number of *)
(* rows, number of cells of the widest row); the body is the sequence of      *)
(* tables, notes and section breaks the renderer adds, empty paragraphs left  *)
(* out.                                                                       *)

\* EnhancedOneNoteContentParser._process_table_for_word: one table of
\* max_rows rows and max_cols columns.
_process_table_for_word_body(rows_count, max_cols) ==
    <<Flowable("table", 1, max_cols, rows_count)>>

\* OneNoteContentParser._tables_word for one table.
App_tables_word_body(rows_count, max_cols, wide_mode) ==
    IF max_cols > 12
    THEN IF ~wide_mode
         THEN <<Flowable("table", 1, Min(8, max_cols), rows_count),
                Flowable("note", 0, 0, 0)>>
         ELSE <<Flowable("table", 1, max_cols, rows_count)>>
    ELSE <<Flowable("table", 1, max_cols, rows_count)>>

\* app.py defines no method _collect_first_table_rows: the call at line 356
\* raises AttributeError, which the except around it swallows.
App_has_collect_first_table_rows == FALSE

\* app.py parse_page_to_docx, lines 354-364: the landscape pass.
App_landscape_pass(rows_count, max_cols) ==
    IF App_has_collect_first_table_rows /\ max_cols > 10
    THEN <<Flowable("section", 0, 0, 0)>>
         \o App_tables_word_body(rows_count, max_cols, TRUE)
    ELSE <<>>

\* self._process_table_for_word(table_elem, doc)
ProcessTableForWord ==
    /\ word_table_done = "none"
    /\ word_table_done' = "_process_table_for_word"
    /\ word_body' = word_body \o _process_table_for_word_body(grid.rows, grid.cols)
    /\ UNCHANGED nonWordTableVars

\* app.py parse_page_to_docx from self._tables_word(root, doc) to doc.save.
App_TablesWord ==
    /\ word_table_done = "none"
    /\ word_table_done' = "_tables_word"
    /\ word_body' = word_body
                    \o App_tables_word_body(grid.rows, grid.cols, FALSE)
                    \o App_landscape_pass(grid.rows, grid.cols)
    /\ UNCHANGED nonWordTableVars

InitWordTable ==
    /\ FetchIdle
    /\ ExportIdle
    /\ ButtonIdle
    /\ CheckIdle
    /\ TreeIdle
    /\ SizeIdle
    /\ IndentIdle
    /\ UnitIdle
    /\ BatchIdle
    /\ PageIdle
    /\ TableIdle
    /\ FormatIdle
    /\ ImageIdle
    /\ TextIdle
    /\ grid \in Grids
    /\ story = <<>>
    /\ pdf_table_done = "none"
    /\ word_body = <<>>
    /\ word_table_done = "none"

NextWordTable == ProcessTableForWord \/ App_TablesWord

SpecWordTable == InitWordTable /\ [][NextWordTable]_vars

-----------------------------------------------------------------------------
(* Batch conversion.  The GUI thread starts a convert worker (a QThread) on   *)
(* the selected pages and the one parser instance; the worker's run() goes    *)
(* through the pages; closing the window terminates the worker and cleans the *)
(* parser's temp files from the GUI thread.  A page is given by what happens  *)
(* to it:                                                                     *)
(*   "image"     valid markup with a picture; both files are written          *)
(*   "savefail"  valid markup with a picture; the save / build fails          *)
(*   "malformed" markup ET.fromstring rejects                                 *)
(*   "empty"     get_page_content returns ''                                  *)
(*   "raises"    a statement of the loop body outside the parse calls raises  *)
(*               (d.mkdir on an unwritable output directory)                  *)
(* Both export formats are selected.  A temp file is <<page index, format>>.  *)

\* Largest number of pages of a batch, and of conversions started.
MaxPages == 2
MaxConversions == 2

PageKinds == {"image", "savefail", "malformed", "empty", "raises"}

ItemLists == UNION {[1..n -> PageKinds] : n \in 1..MaxPages}

\* The kinds whose parse call creates and tracks a temp image file.
MakesTemp(kind) == kind \in {"image", "savefail"}

\* The convert thread executes statements.
WorkerAlive == w_status \in {"running", "lingering"}

\* for it in self.items: ... up to the first parse call.
\* V3.7: an empty page and an exception both end in the finally clause;
\* app.py: an empty page continues the loop, an exception leaves it for the
\* except of run(), which emits err.
W_StartPage ==
    /\ WorkerAlive
    /\ w_pc = "page"
    /\ w_idx <= Len(items)
    /\ attempted' = attempted \cup {w_idx}
    /\ CASE items[w_idx] = "empty" ->
              IF program = "Enhanced"
              THEN w_pc' = "finally" /\ UNCHANGED <<w_idx, signals>>
              ELSE w_pc' = "page" /\ w_idx' = w_idx + 1 /\ UNCHANGED signals
         [] items[w_idx] = "raises" ->
              IF program = "Enhanced"
              THEN w_pc' = "finally" /\ UNCHANGED <<w_idx, signals>>
              ELSE /\ w_pc' = "returning"
                   /\ signals' = signals \cup {"err"}
                   /\ UNCHANGED w_idx
         [] OTHER -> w_pc' = "docx" /\ UNCHANGED <<w_idx, signals>>
    /\ UNCHANGED <<program, items, w_status, parser_temp, disk_temp,
                   remove_failed, busy, window, conversions>>
    /\ UNCHANGED nonBatchVars

\* ok = self.parser.parse_page_to_docx(...): the call, from entry to return.
W_ParseDocx ==
    /\ WorkerAlive
    /\ w_pc = "docx"
    /\ w_pc' = "pdf"
    /\ IF MakesTemp(items[w_idx])
       THEN /\ parser_temp' = parser_temp \cup {<<w_idx, "docx">>}
            /\ disk_temp' = disk_temp \cup {<<w_idx, "docx">>}
       ELSE UNCHANGED <<parser_temp, disk_temp>>
    /\ UNCHANGED <<program, items, w_status, w_idx, remove_failed, attempted,
                   signals, busy, window, conversions>>
    /\ UNCHANGED nonBatchVars

\* ok = self.parser.parse_page_to_pdf(...), then done += 1 and the progress
\* signal.  V3.7 goes on to the finally clause, app.py to the next page.
W_ParsePdf ==
    /\ WorkerAlive
    /\ w_pc = "pdf"
    /\ IF MakesTemp(items[w_idx])
       THEN /\ parser_temp' = parser_temp \cup {<<w_idx, "pdf">>}
            /\ disk_temp' = disk_temp \cup {<<w_idx, "pdf">>}
       ELSE UNCHANGED <<parser_temp, disk_temp>>
    /\ IF program = "Enhanced"
       THEN w_pc' = "finally" /\ UNCHANGED w_idx
       ELSE w_pc' = "page" /\ w_idx' = w_idx + 1
    /\ UNCHANGED <<program, items, w_status, remove_failed, attempted,
                   signals, busy, window, conversions>>
    /\ UNCHANGED nonBatchVars

\* V3.7: finally: self.parser.cleanup_temp_files() is entered.
W_CleanupBegin ==
    /\ WorkerAlive
    /\ w_pc = "finally"
    /\ w_pc' = "cleaning"
    /\ UNCHANGED <<program, items, w_status, w_idx, parser_temp, disk_temp,
                   remove_failed, attempted, signals, busy, window,
                   conversions>>
    /\ UNCHANGED nonBatchVars

\* cleanup_temp_files: each tracked file is removed unless os.remove raises,
\* which is caught and logged; then the list is cleared.
cleanup_temp_files(failed) ==
    /\ failed \subseteq (parser_temp \cap disk_temp)
    /\ disk_temp' = disk_temp \ (parser_temp \ failed)
    /\ remove_failed' = remove_failed \cup failed
    /\ parser_temp' = {}

\* V3.7: cleanup_temp_files returns and the loop goes to the next page.
W_CleanupEnd ==
    /\ WorkerAlive
    /\ w_pc = "cleaning"
    /\ \E failed \in SUBSET parser_temp : cleanup_temp_files(failed)
    /\ w_pc' = "page"
    /\ w_idx' = w_idx + 1
    /\ UNCHANGED <<program, items, w_status, attempted, signals, busy, window,
                   conversions>>
    /\ UNCHANGED nonBatchVars

\* self.done.emit() after the loop.
W_EmitDone ==
    /\ WorkerAlive
    /\ w_pc = "page"
    /\ w_idx > Len(items)
    /\ signals' = signals \cup {"done"}
    /\ w_pc' = "returning"
    /\ UNCHANGED <<program, items, w_status, w_idx, parser_temp, disk_temp,
                   remove_failed, attempted, busy, window, conversions>>
    /\ UNCHANGED nonBatchVars

\* run() returns and the thread ends.
W_Return ==
    /\ WorkerAlive
    /\ w_pc = "returning"
    /\ w_status' = IF w_status = "running" THEN "finished" ELSE "terminated"
    /\ UNCHANGED <<program, items, w_pc, w_idx, parser_temp, disk_temp,
                   remove_failed, attempted, signals, busy, window,
                   conversions>>
    /\ UNCHANGED nonBatchVars

\* A thread that terminate() was called on stops, wherever it stands.
W_Terminated ==
    /\ w_status = "lingering"
    /\ w_status' = "terminated"
    /\ UNCHANGED <<program, items, w_pc, w_idx, parser_temp, disk_temp,
                   remove_failed, attempted, signals, busy, window,
                   conversions>>
    /\ UNCHANGED nonBatchVars

WorkerNext ==
    \/ W_StartPage
    \/ W_ParseDocx
    \/ W_ParsePdf
    \/ W_CleanupBegin
    \/ W_CleanupEnd
    \/ W_EmitDone
    \/ W_Return
    \/ W_Terminated

\* ModernOneNoteGUI._convert, reached through the convert button, which
\* _set_busy(True) disables.  A thread still running is terminated and waited
\* for 100 ms; then a new worker is created on the same parser and started.
_convert ==
    /\ window = "open"
    /\ ~busy
    /\ conversions < MaxConversions
    /\ busy' = TRUE
    /\ conversions' = conversions + 1
    /\ w_status' = "running"
    /\ w_pc' = "page"
    /\ w_idx' = 1
    /\ attempted' = {}
    /\ signals' = {}
    /\ UNCHANGED <<program, items, parser_temp, disk_temp, remove_failed,
                   window>>
    /\ UNCHANGED nonBatchVars

\* ModernOneNoteGUI._conv_done, the slot of the done signal.
_conv_done ==
    /\ window = "open"
    /\ busy
    /\ "done" \in signals
    /\ busy' = FALSE
    /\ UNCHANGED <<program, items, w_status, w_pc, w_idx, parser_temp,
                   disk_temp, remove_failed, attempted, signals, window,
                   conversions>>
    /\ UNCHANGED nonBatchVars

\* ModernOneNoteGUI._conv_err, the slot of the err signal.
_conv_err ==
    /\ window = "open"
    /\ busy
    /\ "err" \in signals
    /\ busy' = FALSE
    /\ UNCHANGED <<program, items, w_status, w_pc, w_idx, parser_temp,
                   disk_temp, remove_failed, attempted, signals, window,
                   conversions>>
    /\ UNCHANGED nonBatchVars

\* closeEvent, first part: thread.terminate(); thread.wait(100) on a running
\* convert thread.  The result of wait is not looked at: the thread has
\* stopped, or it has not stopped yet.
closeEvent_terminate ==
    /\ window = "open"
    /\ window' = "terminated"
    /\ IF w_status = "running"
       THEN w_status' \in {"terminated", "lingering"}
       ELSE UNCHANGED w_status
    /\ UNCHANGED <<program, items, w_pc, w_idx, parser_temp, disk_temp,
                   remove_failed, attempted, signals, busy, conversions>>
    /\ UNCHANGED nonBatchVars

\* closeEvent, second part: self.parser.cleanup_temp_files() is entered.
closeEvent_cleanup_begin ==
    /\ window = "terminated"
    /\ window' = "cleaning"
    /\ UNCHANGED <<program, items, w_status, w_pc, w_idx, parser_temp,
                   disk_temp, remove_failed, attempted, signals, busy,
                   conversions>>
    /\ UNCHANGED nonBatchVars

\* closeEvent, end: cleanup_temp_files returns, event.accept().
closeEvent_cleanup_end ==
    /\ window = "cleaning"
    /\ \E failed \in SUBSET parser_temp : cleanup_temp_files(failed)
    /\ window' = "closed"
    /\ UNCHANGED <<program, items, w_status, w_pc, w_idx, attempted, signals,
                   busy, conversions>>
    /\ UNCHANGED nonBatchVars

GuiNext ==
    \/ _convert
    \/ _conv_done
    \/ _conv_err
    \/ closeEvent_terminate
    \/ closeEvent_cleanup_begin
    \/ closeEvent_cleanup_end

InitBatch ==
    /\ FetchIdle
    /\ ExportIdle
    /\ ButtonIdle
    /\ CheckIdle
    /\ TreeIdle
    /\ SizeIdle
    /\ IndentIdle
    /\ UnitIdle
    /\ PageIdle
    /\ TableIdle
    /\ FormatIdle
    /\ ImageIdle
    /\ TextIdle
    /\ PdfTableIdle
    /\ WordTableIdle
    /\ program \in {"Enhanced", "App"}
    /\ items \in ItemLists
    /\ w_status = "none"
    /\ w_pc = "none"
    /\ w_idx = 0
    /\ parser_temp = {}
    /\ disk_temp = {}
    /\ remove_failed = {}
    /\ attempted = {}
    /\ signals = {}
    /\ busy = FALSE
    /\ window = "open"
    /\ conversions = 0

NextBatch == WorkerNext \/ GuiNext

SpecBatch == InitBatch /\ [][NextBatch]_vars

\* The operating system schedules the convert thread as long as it can run.
SpecBatchFair == SpecBatch /\ WF_vars(WorkerNext)

-----------------------------------------------------------------------------
(* One page whose units may raise *)

\* Largest number of units of a page.
MaxUnits == 3

UnitKinds == {"text", "image", "table"}

\* A unit of the page: its kind, and whether its handler meets an exception
\* while it extracts or renders the unit (add_run, Paragraph or cell.text
\* rejecting the string, b64decode or add_picture rejecting the picture).
PageUnits == [kind : UnitKinds, raises : BOOLEAN]

UnitPages == SeqsUpTo(PageUnits, MaxUnits)

RECURSIVE EnhancedWalk(_, _)
\* _process_content_in_original_order over _word_content_processor /
\* _pdf_content_processor: every handler call stands in the processor's
\* try/except, which logs and returns, and the walk goes on with the next
\* element.
EnhancedWalk(units, k) ==
    IF k > Len(units) THEN <<>>
    ELSE (IF units[k].raises THEN <<>> ELSE <<k>>) \o EnhancedWalk(units, k + 1)

\* EnhancedOneNoteContentParser.parse_page_to_docx / parse_page_to_pdf on a
\* page with raising units.
parse_page_raising_units ==
    /\ unit_parser = "Enhanced"
    /\ page_result = "none"
    /\ IF io_failure = "parse"
       THEN /\ rendered' = <<>>
            /\ page_result' = "False"
       ELSE /\ rendered' = EnhancedWalk(page_units, 1)
            /\ page_result' = Bool(io_failure # "save")
    /\ UNCHANGED <<unit_parser, target, page_units, io_failure>>
    /\ UNCHANGED nonUnitVars

RECURSIVE App_pass(_, _, _, _)
\* One pass of an app.py renderer over the units of one kind, from unit k on:
\* what it put into the output and whether an exception left the loop.  A
\* confined pass catches the exception inside the loop body.
App_pass(units, kind, confined, k) ==
    IF k > Len(units) THEN [out |-> <<>>, raised |-> FALSE]
    ELSE IF units[k].kind # kind THEN App_pass(units, kind, confined, k + 1)
    ELSE IF units[k].raises
         THEN IF confined THEN App_pass(units, kind, confined, k + 1)
              ELSE [out |-> <<>>, raised |-> TRUE]
    ELSE LET rest == App_pass(units, kind, confined, k + 1)
         IN [out |-> <<k>> \o rest.out, raised |-> rest.raised]

\* OneNoteContentParser.parse_page_to_docx on a page with raising units:
\* _write_text_word and _tables_word have no handler of their own, _images_word
\* catches the decode and the add_picture failures; the one handler of
\* parse_page_to_docx returns False without saving.
App_parse_page_to_docx_raising_units ==
    /\ unit_parser = "App"
    /\ target = "docx"
    /\ page_result = "none"
    /\ IF io_failure = "parse"
       THEN /\ rendered' = <<>>
            /\ page_result' = "False"
       ELSE LET texts == App_pass(page_units, "text", FALSE, 1)
                images == App_pass(page_units, "image", TRUE, 1)
                tables == App_pass(page_units, "table", FALSE, 1)
            IN IF texts.raised
               THEN /\ rendered' = texts.out
                    /\ page_result' = "False"
               ELSE IF tables.raised
               THEN /\ rendered' = texts.out \o images.out \o tables.out
                    /\ page_result' = "False"
               ELSE /\ rendered' = texts.out \o images.out \o tables.out
                    /\ page_result' = Bool(io_failure # "save")
    /\ UNCHANGED <<unit_parser, target, page_units, io_failure>>
    /\ UNCHANGED nonUnitVars

\* OneNoteContentParser.parse_page_to_pdf on a page with raising units:
\* _process_outline_pdf catches per outline, _images_pdf_enhanced per picture,
\* and _tables_pdf_enhanced has one handler around the loop over the tables
\* (building the cell Paragraphs stands outside the per-segment handler), so a
\* raising table ends the table pass; the page is built all the same.
App_parse_page_to_pdf_raising_units ==
    /\ unit_parser = "App"
    /\ target = "pdf"
    /\ page_result = "none"
    /\ IF io_failure = "parse"
       THEN /\ rendered' = <<>>
            /\ page_result' = "False"
       ELSE LET texts == App_pass(page_units, "text", TRUE, 1)
                images == App_pass(page_units, "image", TRUE, 1)
                tables == App_pass(page_units, "table", FALSE, 1)
            IN /\ rendered' = texts.out \o images.out \o tables.out
               /\ page_result' = Bool(io_failure # "save")
    /\ UNCHANGED <<unit_parser, target, page_units, io_failure>>
    /\ UNCHANGED nonUnitVars

InitUnit ==
    /\ FetchIdle
    /\ ExportIdle
    /\ ButtonIdle
    /\ CheckIdle
    /\ TreeIdle
    /\ SizeIdle
    /\ IndentIdle
    /\ PageIdle
    /\ BatchIdle
    /\ WordTableIdle
    /\ TableIdle
    /\ FormatIdle
    /\ ImageIdle
    /\ TextIdle
    /\ PdfTableIdle
    /\ unit_parser \in {"Enhanced", "App"}
    /\ target \in {"docx", "pdf"}
    /\ page_units \in UnitPages
    /\ io_failure \in {"none", "parse", "save"}
    /\ rendered = <<>>
    /\ page_result = "none"

NextUnit ==
    \/ parse_page_raising_units
    \/ App_parse_page_to_docx_raising_units
    \/ App_parse_page_to_pdf_raising_units

SpecUnit == InitUnit /\ [][NextUnit]_vars

-----------------------------------------------------------------------------
(* The indent of a text.  A T element lies in an OE; above the OE there may   *)
(* be List elements and others, and below the OE, beside the T, there may be  *)
(* List elements too.                                                         *)

\* Largest number of elements above the OE, and of List elements below it.
MaxDepth == 2

\* Largest indent attribute.
MaxIndent == 2

\* The values of an indent attribute.
IndentValues ==
    {Absent, [kind |-> "empty", val |-> 0], [kind |-> "text", val |-> 0]}
    \cup {[kind |-> "int", val |-> k] : k \in (-1)..MaxIndent}

\* An element above the text: its local name and its indent attribute.
OE_elem == [tag |-> "OE", indent |-> Absent]
Ancestors ==
    {OE_elem, [tag |-> "OEChildren", indent |-> Absent]}
    \cup {[tag |-> "List", indent |-> v] : v \in IndentValues}

\* int(elem.get('indent', '0')) with the ValueError caught: 0.
int_indent(v) == IF v.kind = "int" THEN v.val ELSE 0

RECURSIVE NearestList(_)
\* The walk of _get_text_indent_level up the parents, for elements that have
\* getparent(): the first List decides.
NearestList(ancestors) ==
    IF ancestors = <<>> THEN 0
    ELSE IF Head(ancestors).tag = "List" THEN int_indent(Head(ancestors).indent)
    ELSE NearestList(Tail(ancestors))

\* _get_text_indent_level: without getparent() the loop breaks at once.
_get_text_indent_level(ancestors) ==
    IF ElementHasGetparent THEN NearestList(ancestors) ELSE 0

\* Inches(0.25), Inches(0.5) in points; the PDF factors are points already.
QuarterInch == 18
HalfInch == 36
PdfIndentStep == 15
App_PdfIndentStep == 20

\* left_indent = step * level when level > 0, else none.
LeftIndent(level, step) == IF level > 0 THEN level * step ELSE 0

\* EnhancedOneNoteContentParser._process_text_for_word on the T element.
_process_text_for_word ==
    /\ indent_done = "none"
    /\ indent_done' = "_process_text_for_word"
    /\ indent_level' = _get_text_indent_level(t_ancestors)
    /\ left_indent' = LeftIndent(indent_level', QuarterInch)
    /\ UNCHANGED <<t_ancestors, oe_lists>>
    /\ UNCHANGED nonIndentVars

\* EnhancedOneNoteContentParser._process_text_for_pdf on the T element.
_process_text_for_pdf ==
    /\ indent_done = "none"
    /\ indent_done' = "_process_text_for_pdf"
    /\ indent_level' = _get_text_indent_level(t_ancestors)
    /\ left_indent' = LeftIndent(indent_level', PdfIndentStep)
    /\ UNCHANGED <<t_ancestors, oe_lists>>
    /\ UNCHANGED nonIndentVars

\* app.py _process_outline_element on the OE: every List below the OE sets
\* indent in turn, so the last one decides.
App_process_outline_element ==
    /\ indent_done = "none"
    /\ indent_done' = "App_process_outline_element"
    /\ indent_level' = IF oe_lists = <<>> THEN 0
                       ELSE int_indent(oe_lists[Len(oe_lists)])
    /\ left_indent' = LeftIndent(indent_level', HalfInch)
    /\ UNCHANGED <<t_ancestors, oe_lists>>
    /\ UNCHANGED nonIndentVars

\* app.py _process_outline_pdf on the OE: the first List below the OE decides,
\* and the style's leftIndent is set whatever the level.
App_process_outline_pdf ==
    /\ indent_done = "none"
    /\ indent_done' = "App_process_outline_pdf"
    /\ indent_level' = IF oe_lists = <<>> THEN 0 ELSE int_indent(oe_lists[1])
    /\ left_indent' = indent_level' * App_PdfIndentStep
    /\ UNCHANGED <<t_ancestors, oe_lists>>
    /\ UNCHANGED nonIndentVars

InitIndent ==
    /\ FetchIdle
    /\ ExportIdle
    /\ ButtonIdle
    /\ CheckIdle
    /\ TreeIdle
    /\ SizeIdle
    /\ UnitIdle
    /\ PageIdle
    /\ BatchIdle
    /\ WordTableIdle
    /\ TableIdle
    /\ FormatIdle
    /\ ImageIdle
    /\ TextIdle
    /\ PdfTableIdle
    /\ t_ancestors \in {<<OE_elem>> \o up : up \in SeqsUpTo(Ancestors, MaxDepth)}
    /\ oe_lists \in SeqsUpTo(IndentValues, MaxDepth)
    /\ indent_level = 0
    /\ left_indent = 0
    /\ indent_done = "none"

NextIndent ==
    \/ _process_text_for_word
    \/ _process_text_for_pdf
    \/ App_process_outline_element
    \/ App_process_outline_pdf

SpecIndent == InitIndent /\ [][NextIndent]_vars

-----------------------------------------------------------------------------
(* The size of a picture in the PDF.  Lengths are in hundredths of a point,   *)
(* and a product with a scale factor is taken before the division, rounded    *)
(* down to the hundredth.                                                     *)

\* The natural sizes reach from DimStep to MaxDim * DimStep pixels.
MaxDim == 8
DimStep == 250

Dimensions == {k * DimStep : k \in 1..MaxDim}

\* A4 = (595.27, 841.89) points, cm = 28.35 points.
A4_width == 59527
A4_height == 84189
cm == 2835

\* page_width = A4[0] - 3*cm, page_height = A4[1] - 4*cm
page_width == A4_width - 3 * cm
page_height == A4_height - 4 * cm

Min3(a, b, c) == Min(a, Min(b, c))
MaxOf(a, b) == IF a > b THEN a ELSE b

\* orig * min(scale_w, scale_h, 1.0) for orig = w and scale_w = page_width / w,
\* scale_h = page_height / h: the least of the three products.
EnhancedScaled(orig, w, h) ==
    Min3((orig * page_width) \div w, (orig * page_height) \div h, orig * 100)

\* MinWidthTenths / 10 of the page width is the least width.
MinWidthTenths == 3
App_MinWidthTenths == 7
\* max(orig_height * scale, 100)
MinHeight == 10000
\* page_height * 0.8
MaxHeightTenths == 8

\* EnhancedOneNoteContentParser._calculate_pdf_image_size
_calculate_pdf_image_size(w, h) ==
    [width |-> Min(MaxOf(EnhancedScaled(w, w, h),
                         (page_width * MinWidthTenths) \div 10),
                   page_width),
     height |-> Min(MaxOf(EnhancedScaled(h, w, h), MinHeight),
                    (page_height * MaxHeightTenths) \div 10)]

\* EnhancedOneNoteContentParser._process_image_for_pdf, the sizing step.
CalculatePdfImageSize ==
    /\ size_done = "none"
    /\ size_done' = "_calculate_pdf_image_size"
    /\ final_width' = _calculate_pdf_image_size(orig_width, orig_height).width
    /\ final_height' = _calculate_pdf_image_size(orig_width, orig_height).height
    /\ UNCHANGED <<orig_width, orig_height>>
    /\ UNCHANGED nonSizeVars

\* orig * min(scale_w, scale_h, 1.2) in app.py.
App_Scaled(orig, w, h) ==
    Min3((orig * page_width) \div w, (orig * page_height) \div h, orig * 120)

\* app.py _images_pdf_enhanced, lines 964-979: scale to fit, then widen a
\* picture narrower than 70% of the page width, its height following.
App_pdf_image_size(w, h) ==
    LET min_width == (page_width * App_MinWidthTenths) \div 10
    IN IF App_Scaled(w, w, h) < min_width
       THEN [width |-> min_width, height |-> (h * min_width) \div w]
       ELSE [width |-> App_Scaled(w, w, h), height |-> App_Scaled(h, w, h)]

\* OneNoteContentParser._images_pdf_enhanced, the sizing step.
App_ImagesPdfSize ==
    /\ size_done = "none"
    /\ size_done' = "App_images_pdf_enhanced"
    /\ final_width' = App_pdf_image_size(orig_width, orig_height).width
    /\ final_height' = App_pdf_image_size(orig_width, orig_height).height
    /\ UNCHANGED <<orig_width, orig_height>>
    /\ UNCHANGED nonSizeVars

InitSize ==
    /\ FetchIdle
    /\ ExportIdle
    /\ ButtonIdle
    /\ CheckIdle
    /\ TreeIdle
    /\ IndentIdle
    /\ UnitIdle
    /\ PageIdle
    /\ BatchIdle
    /\ WordTableIdle
    /\ TableIdle
    /\ FormatIdle
    /\ ImageIdle
    /\ TextIdle
    /\ PdfTableIdle
    /\ orig_width \in Dimensions
    /\ orig_height \in Dimensions
    /\ final_width = 0
    /\ final_height = 0
    /\ size_done = "none"

NextSize == CalculatePdfImageSize \/ App_ImagesPdfSize

SpecSize == InitSize /\ [][NextSize]_vars

-----------------------------------------------------------------------------
(* Building the notebook tree (OneNote_ExporterV3.7.py)                    *)
(*                                                                         *)
(* _PopulateWorker.run emits progress, all_data, progress and done from    *)
(* its own thread; every connection is queued, so the window handles the   *)
(* signals one at a time in the order they were emitted.  _build_tree_fast *)
(* lists the items to create and starts a timer; each timeout creates one  *)
(* batch of items.  The event loop delivers queued signals before timer    *)
(* events, and nothing makes the worker wait for the window.               *)

MaxNotebooks == 2
MaxSections == 2
ManyPages == 99

\* Pages per section: none, one, or enough for a second batch.
PageCounts == {0, 1, ManyPages}

\* Hierarchies of nb notebooks with sec sections each and pg pages in each
\* section.  A notebook's id is <<i>>, a section's <<i, j>>, a page's
\* <<i, j, k>>.
Hierarchies ==
    [nb : 0..MaxNotebooks, sec : 0..MaxSections, pg : PageCounts]

\* item = (item_type, parent_id, item_id, item_name)
BuildItem(item_type, parent_id, item_id) ==
    [item_type |-> item_type, parent_id |-> parent_id, item_id |-> item_id]

\* for page_id, page_data in sec_data.get('pages', {}).items()
PageItems(h, i, j) ==
    [k \in 1..h.pg |-> BuildItem("page", <<i, j>>, <<i, j, k>>)]

\* for sec_id, sec_data in nb_data.get('sections', {}).items(), from the
\* j-th section on.
RECURSIVE SectionItems(_, _, _)
SectionItems(h, i, j) ==
    IF j > h.sec THEN <<>>
    ELSE <<BuildItem("section", <<i>>, <<i, j>>)>> \o PageItems(h, i, j)
             \o SectionItems(h, i, j + 1)

\* for nb_id, nb_data in notebooks.items(), from the i-th notebook on.
RECURSIVE NotebookItems(_, _)
NotebookItems(h, i) ==
    IF i > h.nb THEN <<>>
    ELSE <<BuildItem("notebook", <<>>, <<i>>)>> \o SectionItems(h, i, 1)
             \o NotebookItems(h, i + 1)

\* The list _build_tree_fast makes of a hierarchy.
BuildItems(h) == NotebookItems(h, 1)

batch_size == 100

\* The item QTreeWidgetItem(parent) adds to the tree.
TreeItem(item) ==
    [type |-> item.item_type, id |-> item.item_id, parent |-> item.parent_id]

\* One turn of the loop of _build_batch: a notebook is created and cached; a
\* section is created and cached when its parent is cached; a page is
\* created when its parent is cached.
BuildOne(item, built) ==
    LET found == item.item_type = "notebook" \/ item.parent_id \in built.cache
        cached == found /\ item.item_type # "page"
    IN [cache |-> IF cached THEN built.cache \cup {item.item_id} ELSE built.cache,
        tree |-> IF found THEN Append(built.tree, TreeItem(item)) ELSE built.tree]

\* for i in range(self._build_index, end_index), over items[i..end_index]
\* counted from 1: the turns in order, the first half of the range before
\* the second.  The tree only grows, and the test of it makes the first half
\* a value before the second half is entered.
RECURSIVE BuildRange(_, _, _, _)
BuildRange(bitems, i, end_index, built) ==
    IF i > end_index THEN built
    ELSE IF i = end_index THEN BuildOne(bitems[i], built)
    ELSE LET mid == (i + end_index) \div 2
             left == BuildRange(bitems, i, mid, built)
         IN IF Len(left.tree) >= Len(built.tree)
            THEN BuildRange(bitems, mid + 1, end_index, left)
            ELSE left

\* The signals _PopulateWorker.run emits, in order.
PopulateSignals == <<"progress", "all_data", "progress", "done">>

\* _PopulateWorker.run: the next emit.  pop_pc counts the emits made, from
\* 1 for the first; 0 is no worker, Len(PopulateSignals) + 1 a returned run.
PopulateWorker_run ==
    /\ pop_pc \in 1..Len(PopulateSignals)
    /\ posted' = Append(posted, PopulateSignals[pop_pc])
    /\ pop_pc' = pop_pc + 1
    /\ UNCHANGED <<nbs, build_items, build_index, item_cache, tree_items,
                   timer_active, tree_busy, build_finished>>
    /\ UNCHANGED nonTreeVars

\* _on_populate_progress: only the status text changes.
_on_populate_progress ==
    /\ posted # <<>> /\ Head(posted) = "progress"
    /\ posted' = Tail(posted)
    /\ UNCHANGED <<nbs, pop_pc, build_items, build_index, item_cache,
                   tree_items, timer_active, tree_busy, build_finished>>
    /\ UNCHANGED nonTreeVars

\* _build_tree_fast
_build_tree_fast ==
    /\ posted # <<>> /\ Head(posted) = "all_data"
    /\ posted' = Tail(posted)
    /\ build_items' = BuildItems(nbs)
    /\ build_index' = 0
    /\ item_cache' = {}
    /\ timer_active' = TRUE
    /\ UNCHANGED <<nbs, pop_pc, tree_items, tree_busy, build_finished>>
    /\ UNCHANGED nonTreeVars

\* _build_batch, with _finish_build when the last item is reached.  With no
\* item at all the progress division raises and the handler finishes too.
_build_batch ==
    /\ posted = <<>>
    /\ timer_active
    /\ LET end_index == Min(build_index + batch_size, Len(build_items))
           result == BuildRange(build_items, build_index + 1, end_index,
                               [cache |-> item_cache, tree |-> tree_items])
           finish == end_index >= Len(build_items)
       IN /\ item_cache' = result.cache
          /\ tree_items' = result.tree
          /\ build_index' = IF finish THEN 0 ELSE end_index
          /\ build_items' = IF finish THEN <<>> ELSE build_items
          /\ timer_active' = ~finish
          /\ build_finished' = finish
    /\ UNCHANGED <<nbs, pop_pc, posted, tree_busy>>
    /\ UNCHANGED nonTreeVars

\* _on_pop_done
_on_pop_done ==
    /\ posted # <<>> /\ Head(posted) = "done"
    /\ posted' = Tail(posted)
    /\ item_cache' = {}
    /\ tree_busy' = FALSE
    /\ UNCHANGED <<nbs, pop_pc, build_items, build_index, tree_items,
                   timer_active, build_finished>>
    /\ UNCHANGED nonTreeVars

\* _on_loaded has started the populate worker: the window is busy and
\* _refresh has cleared the tree and the cache.
InitTree ==
    /\ FetchIdle
    /\ ExportIdle
    /\ ButtonIdle
    /\ CheckIdle
    /\ PageIdle
    /\ TableIdle
    /\ FormatIdle
    /\ ImageIdle
    /\ TextIdle
    /\ PdfTableIdle
    /\ WordTableIdle
    /\ BatchIdle
    /\ UnitIdle
    /\ IndentIdle
    /\ SizeIdle
    /\ nbs \in Hierarchies
    /\ pop_pc = 1
    /\ posted = <<>>
    /\ build_items = <<>>
    /\ build_index = 0
    /\ item_cache = {}
    /\ tree_items = <<>>
    /\ timer_active = FALSE
    /\ tree_busy = TRUE
    /\ build_finished = FALSE

NextTree ==
    \/ PopulateWorker_run
    \/ _on_populate_progress
    \/ _build_tree_fast
    \/ _build_batch
    \/ _on_pop_done

SpecTree == InitTree /\ [][NextTree]_vars

-----------------------------------------------------------------------------
(* Cascading check marks in the tree (_on_item_changed, the same code in   *)
(* both programs)                                                          *)
(*                                                                         *)
(* The items are created user-checkable without the auto-tristate flag, so *)
(* a click moves a Checked item to Unchecked and any other item to         *)
(* Checked, and only the handler moves the check marks of other items.     *)

MaxShownNotebooks == 2
MaxShownSections == 2
MaxShownPages == 2

ShownTrees ==
    [nb : 1..MaxShownNotebooks, sec : 0..MaxShownSections, pg : 0..MaxShownPages]

\* The items of a tree: notebook <<i>>, section <<i, j>>, page <<i, j, k>>.
TreeNotebooks(h) == {<<i>> : i \in 1..h.nb}
TreeSections(h) == {<<i, j>> : i \in 1..h.nb, j \in 1..h.sec}
TreePages(h) == {<<i, j, k>> : i \in 1..h.nb, j \in 1..h.sec, k \in 1..h.pg}
TreeIds(h) == TreeNotebooks(h) \cup TreeSections(h) \cup TreePages(h)

\* item.child(i) for i in range(item.childCount())
children(h, item) ==
    {c \in TreeIds(h) : Len(c) = Len(item) + 1 /\ SubSeq(c, 1, Len(item)) = item}

\* item.parent()
parent_of(item) == SubSeq(item, 1, Len(item) - 1)

\* _cascade_check_section
_cascade_check_section(h, st, section_item, cs) ==
    [x \in DOMAIN st |-> IF x \in children(h, section_item) THEN cs ELSE st[x]]

\* _cascade_check_notebook
_cascade_check_notebook(h, st, notebook_item, cs) ==
    [x \in DOMAIN st |->
        IF \/ x \in children(h, notebook_item)
           \/ \E s \in children(h, notebook_item) : x \in children(h, s)
        THEN cs ELSE st[x]]

\* _update_notebook_check_state
_update_notebook_check_state(h, st, section_item) ==
    LET notebook_item == parent_of(section_item)
        kids == children(h, notebook_item)
        checked_count == Cardinality({c \in kids : st[c] = "Checked"})
        partial_count == Cardinality({c \in kids : st[c] = "PartiallyChecked"})
        total_count == Cardinality(kids)
    IN [st EXCEPT ![notebook_item] =
           IF checked_count = 0 /\ partial_count = 0 THEN "Unchecked"
           ELSE IF checked_count = total_count THEN "Checked"
           ELSE "PartiallyChecked"]

\* _update_parent_check_state
_update_parent_check_state(h, st, page_item) ==
    LET section_item == parent_of(page_item)
        kids == children(h, section_item)
        checked_count == Cardinality({c \in kids : st[c] = "Checked"})
        total_count == Cardinality(kids)
        marked == [st EXCEPT ![section_item] =
                      IF checked_count = 0 THEN "Unchecked"
                      ELSE IF checked_count = total_count THEN "Checked"
                      ELSE "PartiallyChecked"]
    IN _update_notebook_check_state(h, marked, section_item)

\* What a click does to the item's own check mark.
Clicked(cs) == IF cs = "Checked" THEN "Unchecked" ELSE "Checked"

\* The user clicks the check box of an item; _on_item_changed runs.
_on_item_changed ==
    \E item \in TreeIds(shape) :
        LET st == [check_state EXCEPT ![item] = Clicked(check_state[item])]
        IN /\ check_state' =
                  IF Len(item) = 1
                  THEN _cascade_check_notebook(shape, st, item, st[item])
                  ELSE IF Len(item) = 2
                  THEN _cascade_check_section(shape, st, item, st[item])
                  ELSE _update_parent_check_state(shape, st, item)
           /\ toggled' = item
           /\ UNCHANGED shape
           /\ UNCHANGED nonCheckVars

\* A freshly built tree: every item Unchecked.
InitCheck ==
    /\ FetchIdle
    /\ ExportIdle
    /\ ButtonIdle
    /\ PageIdle
    /\ TableIdle
    /\ FormatIdle
    /\ ImageIdle
    /\ TextIdle
    /\ PdfTableIdle
    /\ WordTableIdle
    /\ BatchIdle
    /\ UnitIdle
    /\ IndentIdle
    /\ SizeIdle
    /\ TreeIdle
    /\ shape \in ShownTrees
    /\ check_state = [x \in TreeIds(shape) |-> "Unchecked"]
    /\ toggled = <<>>

NextCheck == _on_item_changed

SpecCheck == InitCheck /\ [][NextCheck]_vars

-----------------------------------------------------------------------------
(* The convert button (ModernOneNoteGUI; the same handlers in app.py)      *)
(*                                                                         *)
(* _set_busy(busy) enables or disables every control, the convert button   *)
(* among them, by the busy flag alone; _update_convert enables the button  *)
(* by the selection and the output directory alone.  While the window is   *)
(* busy the tree and the buttons are disabled, so the user's handlers run  *)
(* only when it is not.                                                    *)

MaxPagesShown == 5

\* _refresh: the tree is cleared; self.selected_items is not recomputed.
_refresh ==
    /\ ~gui_busy
    /\ gui_busy' = TRUE
    /\ convert_enabled' = FALSE
    /\ gui_task' = "refresh"
    /\ shown_pages' = 0
    /\ UNCHANGED <<selected, dir_chosen>>
    /\ UNCHANGED nonButtonVars

\* The refresh ends: _on_pop_done, _on_pop_err or _on_load_err, each with
\* _set_busy(False).  On failure the tree stays empty.
RefreshEnds ==
    /\ gui_task = "refresh"
    /\ \E n \in 0..MaxPagesShown : shown_pages' = n
    /\ gui_busy' = FALSE
    /\ convert_enabled' = TRUE
    /\ gui_task' = "none"
    /\ UNCHANGED <<selected, dir_chosen>>
    /\ UNCHANGED nonButtonVars

\* _update_convert
_update_convert(sel, dir) == sel > 0 /\ dir

\* The user checks or unchecks items (or presses select all / select none):
\* _update_selection, then _update_convert.
SelectionChanged ==
    /\ ~gui_busy
    /\ \E n \in 0..shown_pages : selected' = n
    /\ convert_enabled' = _update_convert(selected', dir_chosen)
    /\ UNCHANGED <<gui_busy, gui_task, shown_pages, dir_chosen>>
    /\ UNCHANGED nonButtonVars

\* _choose_dir: a directory is chosen, or the dialog is cancelled.
_choose_dir ==
    /\ ~gui_busy
    /\ \E d \in BOOLEAN :
          IF d
          THEN /\ dir_chosen' = TRUE
               /\ convert_enabled' = _update_convert(selected, TRUE)
          ELSE UNCHANGED <<dir_chosen, convert_enabled>>
    /\ UNCHANGED <<gui_busy, gui_task, shown_pages, selected>>
    /\ UNCHANGED nonButtonVars

\* _convert: a click on the enabled button.
ConvertClicked ==
    /\ convert_enabled
    /\ IF selected = 0 \/ ~dir_chosen
       THEN UNCHANGED <<gui_busy, gui_task, convert_enabled>>
       ELSE /\ gui_busy' = TRUE
            /\ convert_enabled' = FALSE
            /\ gui_task' = "convert"
    /\ UNCHANGED <<shown_pages, selected, dir_chosen>>
    /\ UNCHANGED nonButtonVars

\* The conversion ends: _conv_done or _conv_err, each with _set_busy(False).
ConversionEnds ==
    /\ gui_task = "convert"
    /\ gui_busy' = FALSE
    /\ convert_enabled' = TRUE
    /\ gui_task' = "none"
    /\ UNCHANGED <<shown_pages, selected, dir_chosen>>
    /\ UNCHANGED nonButtonVars

InitButton ==
    /\ FetchIdle
    /\ ExportIdle
    /\ PageIdle
    /\ TableIdle
    /\ FormatIdle
    /\ ImageIdle
    /\ TextIdle
    /\ PdfTableIdle
    /\ WordTableIdle
    /\ BatchIdle
    /\ UnitIdle
    /\ IndentIdle
    /\ SizeIdle
    /\ TreeIdle
    /\ CheckIdle
    /\ ButtonIdle

NextButton ==
    \/ _refresh
    \/ RefreshEnds
    \/ SelectionChanged
    \/ _choose_dir
    \/ ConvertClicked
    \/ ConversionEnds

SpecButton == InitButton /\ [][NextButton]_vars

-----------------------------------------------------------------------------
(* Output paths of an export run (_EnhancedConvertWorker.run and           *)
(* _ConvertWorker.run compute them alike)                                  *)
(*                                                                         *)
(* A name is a sequence of characters.  A path is the sanitised notebook,  *)
(* section and page name with the format's extension.                      *)

MaxExported == 2
SafeLen == 100

\* '未命名'
Unnamed == <<"U+672A", "U+547D", "U+540D">>

\* c.isalnum() or c in (' ', '-', '_', '.')
SafeChar(c) == c \in {"a", "b", "c", "n", "s", "U+672A", "U+547D", "U+540D", " ", "-", "_", "."}

\* safe = lambda s: ''.join(c for c in (s or '未命名') if c.isalnum() or
\*                          c in (' ','-','_','.')).strip()[:100] or '未命名'
safe(s) ==
    LET kept == strip(SelectSeq(IF s = <<>> THEN Unnamed ELSE s, SafeChar))
        cut == SubSeq(kept, 1, Min(SafeLen, Len(kept)))
    IN IF cut = <<>> THEN Unnamed ELSE cut

\* d / f'{safe(name)}.docx' with d = self.out / safe(nb) / safe(sec)
OutPath(it, ext) ==
    <<safe(it.notebook_name), safe(it.section_name), safe(it.page_name), ext>>

\* A name of SafeLen characters.
LongName == [k \in 1..SafeLen |-> "a"]

\* Page names: empty, plain, with characters the sanitiser drops, with
\* blanks it strips, the default itself, and two names that differ only
\* after SafeLen characters.
PageNames ==
    {<<>>, <<"a">>, <<"b">>, <<"a", "/">>, <<" ", "a">>, <<"/">>, Unnamed,
     LongName \o <<"b">>, LongName \o <<"c">>}

SectionNames == {<<"s">>, <<"s", ":">>}

ExportItem ==
    [page_name : PageNames, section_name : SectionNames, notebook_name : {<<"n">>}]

\* The selections: one to MaxExported distinct pages; the page id is the
\* position in the list.
ExportItemLists == UNION {[1..k -> ExportItem] : k \in 1..MaxExported}

\* One format of one page: parse_page_to_docx / parse_page_to_pdf writes
\* the file when it returns True.
Written(files_map, enabled, ok, path, page) ==
    IF enabled /\ ok
    THEN [p \in DOMAIN files_map \cup {path} |-> IF p = path THEN page ELSE files_map[p]]
    ELSE files_map

\* One turn of the loop of run: the page's XML is empty (the page is
\* skipped), or each selected format is exported and succeeds or fails.
ExportPage ==
    /\ out_idx < Len(out_items)
    /\ out_idx' = out_idx + 1
    /\ \E has_xml, ok_docx, ok_pdf \in BOOLEAN :
          LET page == out_idx + 1
              it == out_items[page]
              docx_done == Written(out_files, has_xml /\ out_docx, ok_docx,
                                   OutPath(it, ".docx"), page)
          IN /\ out_files' = Written(docx_done, has_xml /\ out_pdf, ok_pdf,
                                     OutPath(it, ".pdf"), page)
             /\ out_ok' = out_ok
                    \cup (IF has_xml /\ out_docx /\ ok_docx THEN {<<page, ".docx">>} ELSE {})
                    \cup (IF has_xml /\ out_pdf /\ ok_pdf THEN {<<page, ".pdf">>} ELSE {})
    /\ UNCHANGED <<out_items, out_docx, out_pdf>>
    /\ UNCHANGED nonExportVars

InitExport ==
    /\ FetchIdle
    /\ PageIdle
    /\ TableIdle
    /\ FormatIdle
    /\ ImageIdle
    /\ TextIdle
    /\ PdfTableIdle
    /\ WordTableIdle
    /\ BatchIdle
    /\ UnitIdle
    /\ IndentIdle
    /\ SizeIdle
    /\ TreeIdle
    /\ CheckIdle
    /\ ButtonIdle
    /\ out_items \in ExportItemLists
    /\ out_idx = 0
    /\ out_docx \in BOOLEAN
    /\ out_pdf \in BOOLEAN
    /\ out_files = <<>>
    /\ out_ok = {}

NextExport == ExportPage

SpecExport == InitExport /\ [][NextExport]_vars

-----------------------------------------------------------------------------
(* Fetching a page's content (OneNoteAPI.get_page_content with retries,    *)
(* OneNote_ExporterV3.7.py) and what the conversion worker does with it    *)
(*                                                                         *)
(* A retrieval raises, gives blank text (None, '' or white space) or gives *)
(* text.  The content returned is named by the turn and the method that    *)
(* gave it.                                                                *)

MaxRetries == 3

Retrievals == {"raise", "blank", "text"}

\* Mutant of AttemptYield: an exception of _get_page_ps leaves the function.
AttemptYield_PsRaises(has_app, com, ps) ==
    IF has_app /\ com = "text" THEN "com"
    ELSE IF ps = "text" THEN "ps"
    ELSE IF ps = "raise" THEN "raise"
    ELSE "none"

\* One turn of the retry loop: "com" when self.app.GetPageContent(page_id, 7)
\* gave text, "ps" when _get_page_ps did, else "none".  The second COM call
\* passes x = '' by value and tests x afterwards, so it never yields.  An
\* exception of a COM call is passed over, one of _get_page_ps is caught by
\* the outer handler of the turn.
AttemptYield(has_app, com, ps) ==
    IF has_app /\ com = "text" THEN "com"
    ELSE IF ps = "text" THEN "ps"
    ELSE "none"

\* get_page_content: one turn of for attempt in range(max_retries).
get_page_content_attempt ==
    /\ fetch_pc = "loop"
    /\ fetch_attempt < fetch_max
    /\ \E com, ps \in Retrievals :
          LET yield == AttemptYield(fetch_app, com, ps)
          IN /\ fetch_attempt' = fetch_attempt + 1
             /\ fetch_log' = Append(fetch_log, yield)
             /\ IF yield = "raise"
                THEN /\ fetch_pc' = "raised"
                     /\ UNCHANGED fetch_result
                ELSE IF yield = "none"
                THEN UNCHANGED <<fetch_pc, fetch_result>>
                ELSE /\ fetch_pc' = "returned"
                     /\ fetch_result' = <<fetch_attempt + 1, yield>>
    /\ UNCHANGED <<fetch_app, fetch_max, fetch_files>>
    /\ UNCHANGED nonFetchVars

\* get_page_content: the loop is over, return ''.
get_page_content_empty ==
    /\ fetch_pc = "loop"
    /\ fetch_attempt >= fetch_max
    /\ fetch_pc' = "returned"
    /\ fetch_result' = <<>>
    /\ UNCHANGED <<fetch_app, fetch_max, fetch_attempt, fetch_log, fetch_files>>
    /\ UNCHANGED nonFetchVars

\* The worker after xml = self.api.get_page_content(pid, max_retries=3):
\* 'if not xml: ...; continue', else each export writes its file or fails.
WorkerUsesContent ==
    /\ fetch_pc = "returned"
    /\ IF fetch_result = <<>>
       THEN /\ fetch_pc' = "skipped"
            /\ UNCHANGED fetch_files
       ELSE /\ fetch_pc' = "exported"
            /\ \E written \in SUBSET {".docx", ".pdf"} : fetch_files' = written
    /\ UNCHANGED <<fetch_app, fetch_max, fetch_attempt, fetch_log, fetch_result>>
    /\ UNCHANGED nonFetchVars

InitFetch ==
    /\ PageIdle
    /\ TableIdle
    /\ FormatIdle
    /\ ImageIdle
    /\ TextIdle
    /\ PdfTableIdle
    /\ WordTableIdle
    /\ BatchIdle
    /\ UnitIdle
    /\ IndentIdle
    /\ SizeIdle
    /\ TreeIdle
    /\ CheckIdle
    /\ ButtonIdle
    /\ ExportIdle
    /\ fetch_app \in BOOLEAN
    /\ fetch_max \in 0..MaxRetries
    /\ fetch_attempt = 0
    /\ fetch_log = <<>>
    /\ fetch_pc = "loop"
    /\ fetch_result = <<>>
    /\ fetch_files = {}

NextFetch ==
    \/ get_page_content_attempt
    \/ get_page_content_empty
    \/ WorkerUsesContent

SpecFetch == InitFetch /\ [][NextFetch]_vars

-----------------------------------------------------------------------------
(* Pages with a table inside a cell of another table                       *)
(*                                                                         *)
(* The outer table has one row with one cell; the cell holds a text and    *)
(* the inner table, which has one row with one cell with a text.  The page *)
(* may end with one of the usual blocks.  The pages are exported by the    *)
(* same parse_page_to_docx / parse_page_to_pdf as any other page.          *)

\* Elements 1..5 are the outer Table, Row, Cell, OE and T; 6..10 the inner
\* ones, the inner Table a child of the outer Cell.
NestedTable(outer_text, inner_text) ==
    [par |-> <<0, 1, 2, 3, 4, 3, 6, 7, 8, 9>>,
     lab |-> <<Node("Table", FALSE, "none"), Node("Row", FALSE, "none"),
               Node("Cell", FALSE, "none"), Node("OE", FALSE, "none"),
               Node("T", outer_text, "none"),
               Node("Table", FALSE, "none"), Node("Row", FALSE, "none"),
               Node("Cell", FALSE, "none"), Node("OE", FALSE, "none"),
               Node("T", inner_text, "none")>>]

NestedPages ==
    {Join(<<NestedTable(a, b)>> \o rest) :
        a \in BOOLEAN, b \in BOOLEAN, rest \in {<<>>} \cup {<<bl>> : bl \in Blocks}}

InitNested ==
    /\ FetchIdle
    /\ ExportIdle
    /\ ButtonIdle
    /\ CheckIdle
    /\ TreeIdle
    /\ SizeIdle
    /\ IndentIdle
    /\ UnitIdle
    /\ BatchIdle
    /\ WordTableIdle
    /\ TableIdle
    /\ FormatIdle
    /\ ImageIdle
    /\ TextIdle
    /\ PdfTableIdle
    /\ parser \in {"Enhanced", "App"}
    /\ xml \in NestedPages
    /\ include_images \in BOOLEAN
    /\ wordDoc = <<>>
    /\ pdfStory = <<>>
    /\ docx_result = "none"
    /\ pdf_result = "none"
    /\ files = {}
    /\ temp_files = <<>>

SpecNested == InitNested /\ [][Next]_vars

-----------------------------------------------------------------------------
(* Claims about one page *)

\* The units of a document body follow the document order of their nodes.
InDocumentOrder(doc) ==
    \A i, j \in 1..Len(doc) : i < j => doc[i].node <= doc[j].node

\* C1: Table, Image and Text units reach the Word document and the PDF story
\* in source document order: a unit of an earlier node is never appended after
\* a unit of a later node.
C1_UnitsInDocumentOrder ==
    InDocumentOrder(wordDoc) /\ InDocumentOrder(pdfStory)

\* C1, the walker of OneNote_ExporterV3.7.py alone keeps document order.
C1_EnhancedWalkerInOrder ==
    parser = "Enhanced" => InDocumentOrder(wordDoc) /\ InDocumentOrder(pdfStory)

\* A text unit whose node lies below a Table element.
TextUnitInsideTable(doc) ==
    \E k \in 1..Len(doc) :
        /\ doc[k].kind = "text"
        /\ \E a \in AncOrSelfOf(xml.par, doc[k].node) \ {doc[k].node} :
              Tag(xml, a) = "Table"

\* C2: an OE or T element with a Table ancestor is never emitted as a Text
\* unit of its own, in either output.
C2_NoTextUnitInsideTable ==
    ~TextUnitInsideTable(wordDoc) /\ ~TextUnitInsideTable(pdfStory)

\* C3: when the markup does not parse, neither parse call returns true and no
\* output file exists.
C3_ParseFailureNoOutput ==
    ~xml.ok => /\ docx_result # "True"
               /\ pdf_result # "True"
               /\ files = {}

\* C3 witness: both calls have run on markup that does not parse.
C3_Witness ==
    ~xml.ok /\ docx_result = "False" /\ pdf_result = "False"


\* The units either parser's renderers put after the title.
BodyOf(p, t, inc) ==
    IF p = "Enhanced" THEN _process_content_in_original_order(t, inc)
    ELSE App_body(t, inc)

\* The units of a body that are no pictures.
TextAndTableUnits(units) ==
    LET NoPicture(u) == u.kind # "image"
    IN SelectSeq(units, NoPicture)

\* C14: with include_images false no Image unit is rendered into the Word
\* document or the PDF and no temp image file is created or tracked, while
\* the Text and Table units are the ones rendered with include_images true,
\* in the same order.
C14_ImagesGated ==
    ~include_images =>
        /\ temp_files = <<>>
        /\ (docx_result # "none" /\ xml.ok) =>
              wordDoc = <<Title>> \o TextAndTableUnits(BodyOf(parser, xml, TRUE))
        /\ (pdf_result # "none" /\ xml.ok) =>
              pdfStory = <<Title>> \o TextAndTableUnits(BodyOf(parser, xml, TRUE))

\* A page with an acceptable picture and another unit, exported to both
\* formats without pictures.
C14_Witness ==
    /\ ~include_images
    /\ xml.ok
    /\ docx_result = "True"
    /\ pdf_result = "True"
    /\ \E el \in 1..xml.n : xml.lab[el].img = "big"
    /\ Len(wordDoc) > 1
    /\ Len(BodyOf(parser, xml, TRUE)) > Len(wordDoc) - 1

-----------------------------------------------------------------------------
(* Claims about table extraction *)


\* The rows of s at the indices that satisfy Keep, in their order.
RECURSIVE Pick(_, _, _)
Pick(s, Keep(_), i) ==
    IF i > Len(s) THEN <<>>
    ELSE (IF Keep(i) THEN <<s[i]>> ELSE <<>>) \o Pick(s, Keep, i + 1)

\* The first up-to-3 cell values of a row.
FirstThree(row) == SubSeq(row, 1, Min(3, Len(row)))

\* The rows the Enhanced extractor reads from the table, before any filter.
CandidateRows == [r \in 1..Len(table) |-> RowData(table[r])]
\* The rows app.py reads from the table, before any filter.
App_CandidateRows ==
    [r \in 1..Len(table) |-> [k \in 1..Len(table[r]) |-> table[r][k].text]]

ExampleTable == <<PlainRow(<<A, B>>), PlainRow(<<A, B>>), PlainRow(<<C, D>>)>>

RealPositions(row) == {k \in 1..Len(row) : row[k] # <<>>}

\* The number of empty entries between the i-th non-empty entry of an
\* extracted row and the next non-empty entry (or the end of the row).
BlanksAfter(row, i) ==
    LET ps == SetToSortedSeq(RealPositions(row))
        next == IF i < Len(ps) THEN ps[i + 1] ELSE Len(row) + 1
    IN next - ps[i] - 1

\* A table of one row whose cells all have text has been extracted.
OneFullRowExtracted ==
    /\ "Enhanced" \in table_done
    /\ Len(table) = 1
    /\ table[1] # <<>>
    /\ \A k \in 1..Len(table[1]) : table[1][k].text # <<>>

\* C5 as stated: a cell with a span attribute of value k under any of the
\* casing variants is followed by exactly k-1 empty cells; a cell with no span
\* attribute or a non-numeric one contributes exactly one cell.
C5_SpanBlanksAnyVariant ==
    OneFullRowExtracted =>
        /\ Len(rows_data) = 1
        /\ Cardinality(RealPositions(rows_data[1])) = Len(table[1])
        /\ \A i \in 1..Len(table[1]) :
              LET sp == table[1][i].span
              IN /\ \A v \in 1..3 : IsInt(sp[v]) =>
                        BlanksAfter(rows_data[1], i) = sp[v].val - 1
                 /\ (\A v \in 1..3 : ~IsInt(sp[v])) =>
                        BlanksAfter(rows_data[1], i) = 0

\* The span the first present, non-empty variant (colspan, COLSPAN, Colspan in
\* this order) gives: its integer when it is one and at least 1, else 1.
DecidingSpan(sp) ==
    LET Present(v) == sp[v].kind \notin {"absent", "empty"}
    IN IF \E v \in 1..3 : Present(v)
       THEN LET v == CHOOSE w \in 1..3 :
                        Present(w) /\ \A u \in 1..(w - 1) : ~Present(u)
            IN IF IsInt(sp[v]) /\ sp[v].val >= 1 THEN sp[v].val ELSE 1
       ELSE 1

\* C5 amended: the first of colspan, COLSPAN, Colspan that is present and not
\* empty decides; if it is an integer k >= 1 the cell's text is followed by
\* exactly k-1 empty cells before the next real cell; with no such attribute,
\* a non-numeric one or k <= 0 the cell contributes exactly one cell.
C5_SpanBlanksFirstVariant ==
    OneFullRowExtracted =>
        /\ Len(rows_data) = 1
        /\ Cardinality(RealPositions(rows_data[1])) = Len(table[1])
        /\ \A i \in 1..Len(table[1]) :
              LET ps == SetToSortedSeq(RealPositions(rows_data[1]))
              IN /\ rows_data[1][ps[i]] = table[1][i].text
                 /\ BlanksAfter(rows_data[1], i) = DecidingSpan(table[1][i].span) - 1
        /\ rows_data[1][1] # <<>>

\* C5 witness: COLSPAN = 3 behind an empty colspan puts two empty cells
\* between A and B.
C5_Witness ==
    /\ "Enhanced" \in table_done
    /\ table = << <<Cell(A, <<[kind |-> "empty", val |-> 0],
                             [kind |-> "int", val |-> 3], Absent>>),
                    Plain(B)>> >>
    /\ rows_data = << <<A, <<>>, <<>>, B>> >>

\* All rows of the grid have the same length.
Rectangular(rows) ==
    \A i, j \in 1..Len(rows) : Len(rows[i]) = Len(rows[j])

\* Row i of the cells is row i of the grid followed by empty strings only.
RightPadded(cells, rows) ==
    /\ Len(cells) = Len(rows)
    /\ \A i \in 1..Len(rows) :
          /\ Len(cells[i]) >= Len(rows[i])
          /\ SubSeq(cells[i], 1, Len(rows[i])) = rows[i]
          /\ \A j \in (Len(rows[i]) + 1)..Len(cells[i]) : cells[i][j] = <<>>

C20_WordWitness ==
    /\ table_render.renderer = "_process_table_for_word"
    /\ ~Rectangular(table_render.grid)
    /\ Rectangular(table_render.cells)
    /\ table_render.cells # <<>>

-----------------------------------------------------------------------------
(* Claims about format detection *)

NoKnownSignature(bytes) == \A sig \in Signatures : ~startswith(bytes, sig)

\* C7: once the detector has run, bytes that begin 0xFF 0xD8 0xFF were given
\* '.jpg', and bytes that begin with none of the known signatures were given
\* '.png'.
C7_JpgAndDefaultPng ==
    format_ext # "none" =>
        /\ startswith(data, <<255, 216, 255>>) => format_ext = ".jpg"
        /\ NoKnownSignature(data) => format_ext = ".png"

\* The detector has run on a JPEG header followed by more bytes.
C7_Witness ==
    /\ format_ext = ".jpg"
    /\ startswith(data, <<255, 216, 255>>)
    /\ Len(data) > 3

\* The detector has run on bytes that begin with no signature.
DefaultPngReached ==
    /\ format_ext = ".png"
    /\ data # <<>>
    /\ NoKnownSignature(data)

-----------------------------------------------------------------------------
(* Claims about image extraction *)

\* C6: once an image handler has run, the payload its extraction step
\* produced, if any, is longer than 100 bytes, and so is every picture it
\* put into the Word document or the PDF story.
C6_NoPayloadOfAtMost100Bytes ==
    image_done # "none" =>
        /\ image_data.found => image_data.len > MinImageBytes
        /\ \A k \in 1..Len(image_out) : image_out[k].len > MinImageBytes

\* The same statement for the two handlers of OneNote_ExporterV3.7.py alone,
\* whose extraction tests len(data) > 100 in each of its three stages.
C6_EnhancedNoPayloadOfAtMost100Bytes ==
    image_done \in {"_process_image_for_word", "_process_image_for_pdf"} =>
        /\ image_data.found => image_data.len > MinImageBytes
        /\ \A k \in 1..Len(image_out) : image_out[k].len > MinImageBytes

\* A V3.7 handler has run on an element whose three texts all decode to a
\* PNG header of at most 100 bytes, and returned nothing.
SmallSignedPayloadsRejected ==
    /\ image_done = "_process_image_for_word"
    /\ \A pl \in {img_elem.data, img_elem.child, img_elem.descendant} :
          /\ Decodes(pl)
          /\ pl.head = PngSignature
          /\ DecodedLen(pl) <= MinImageBytes
    /\ DecodedLen(img_elem.data) = MinImageBytes
    /\ ~image_data.found

\* One of the two image handlers of OneNote_ExporterV3.7.py has run.
EnhancedHandlerRan ==
    image_done \in {"_process_image_for_word", "_process_image_for_pdf"}

\* A text stages 1 and 2 accept: it decodes to more than 100 bytes.
AcceptedByDecode(pl) == Decodes(pl) /\ LongEnough(pl)

\* C18: the extraction goes through its stages in the order attributes,
\* children, subtree scan, and returns the payload of the first stage that
\* accepts one: the attribute's when it is accepted, whatever the other texts
\* are; else the child's when it is accepted; else what the scan of the
\* subtree accepts first; and nothing, without an exception, when no stage
\* accepts a payload.
C18_FirstAcceptingStageWins ==
    EnhancedHandlerRan =>
        /\ AcceptedByDecode(img_elem.data) =>
              /\ image_data = Returned(img_elem.data)
              /\ scan_decoded = {}
        /\ (~AcceptedByDecode(img_elem.data) /\ AcceptedByDecode(img_elem.child))
              => /\ image_data = Returned(img_elem.child)
                 /\ scan_decoded = {}
        /\ (/\ ~AcceptedByDecode(img_elem.data)
            /\ ~AcceptedByDecode(img_elem.child)
            /\ Stage3(img_elem.descendant))
              => image_data = Returned(img_elem.descendant)
        /\ (/\ ~AcceptedByDecode(img_elem.data)
            /\ ~AcceptedByDecode(img_elem.child)
            /\ ~Stage3(img_elem.descendant))
              => image_data = NoImage

\* The attribute's payload is rejected, the child's and the descendant's are
\* both acceptable and differ, and the handler returned the child's.
C18_Witness ==
    /\ image_done = "_process_image_for_word"
    /\ Decodes(img_elem.data)
    /\ ~LongEnough(img_elem.data)
    /\ AcceptedByDecode(img_elem.child)
    /\ Stage3(img_elem.descendant)
    /\ Returned(img_elem.child) # Returned(img_elem.descendant)
    /\ image_data = Returned(img_elem.child)

\* All three stages yield nothing (a text that does not decode, a payload
\* that is too short, no text) and the handler returned nothing.
C18_NothingFound ==
    /\ image_done = "_process_image_for_pdf"
    /\ img_elem.data = BadPadding
    /\ Decodes(img_elem.child)
    /\ ~LongEnough(img_elem.child)
    /\ ~img_elem.descendant.present
    /\ image_data = NoImage

\* The subtree scan got as far as the deeper descendant.
ScanReachedDescendant ==
    /\ EnhancedHandlerRan
    /\ ~AcceptedByDecode(img_elem.data)
    /\ ~AcceptedByDecode(img_elem.child)
    /\ ~Stage3(img_elem.child)

\* C19 as stated: the scan passes a descendant's text to the base64 decoder
\* if and only if the text has at least 100 characters and all of them are
\* of the base64 alphabet.
C19_ScanDecodesLongAlphabetTexts ==
    ScanReachedDescendant =>
        ("descendant" \in scan_decoded
            <=> /\ img_elem.descendant.present
                /\ TextLen(img_elem.descendant) >= MinImageBytes
                /\ img_elem.descendant.stray = "none")

\* C19, amended: the scan passes a descendant's text to the base64 decoder
\* if and only if the text has more than 100 characters and each of its
\* first 100 characters is of the base64 alphabet.
C19_ScanDecodesByFirstHundred ==
    ScanReachedDescendant =>
        ("descendant" \in scan_decoded
            <=> /\ img_elem.descendant.present
                /\ TextLen(img_elem.descendant) > MinImageBytes
                /\ img_elem.descendant.stray # "early")

\* The scan decoded a text with a character outside the alphabet after its
\* first 100 characters, and the handler returned the picture it holds.
C19_Witness ==
    /\ ScanReachedDescendant
    /\ img_elem.descendant.stray = "late"
    /\ "descendant" \in scan_decoded
    /\ image_data.found

\* The scan left alone a text of exactly 100 characters of the alphabet.
C19_HundredCharactersSkipped ==
    /\ ScanReachedDescendant
    /\ img_elem.descendant.present
    /\ img_elem.descendant.stray = "none"
    /\ TextLen(img_elem.descendant) = MinImageBytes
    /\ scan_decoded = {}

-----------------------------------------------------------------------------
(* Claims about text cleaning *)

\* A match of <[^>]+> in the text.
HasTag(text) ==
    \E i, j \in 1..Len(text) :
        /\ i + 1 < j
        /\ text[i] = "<"
        /\ text[j] = ">"
        /\ \A k \in (i + 1)..(j - 1) : text[k] # ">"

\* C8: once a cleaner has run, its result holds no tag <...>, whether the tag
\* stood in the text or came out of unescaping entities, and the text
\* &lt;b&gt;Hi&lt;/b&gt; has been cleaned to exactly Hi.
C8_UnescapeThenStripTags ==
    text_done # "none" =>
        /\ ~HasTag(clean_text)
        /\ t_text = EscapedBoldHi => clean_text = <<"H", "i">>

\* _clean_text_content has run on &lt;b&gt;Hi&lt;/b&gt; and returned Hi.
C8_Witness ==
    /\ text_done = "_clean_text_content"
    /\ t_text = EscapedBoldHi
    /\ HasTag(unescape(t_text))
    /\ clean_text = <<"H", "i">>

-----------------------------------------------------------------------------
(* Claims about tables in the PDF *)

\* The Table flowables of the story, in order.
StoryTables == LET IsTable(f) == f.kind = "table" IN SelectSeq(story, IsTable)

StoryNotes == LET IsNote(f) == f.kind = "note" IN SelectSeq(story, IsNote)

\* The segment width the statement gives for a table of m columns.
StatedSegmentWidth(m) == IF m <= 8 THEN m ELSE IF m <= 12 THEN 8 ELSE 6

\* The tables of the story are the column segments the statement gives:
\* segment k holds the columns (k-1)*w+1 .. min(k*w, m).
SegmentsAsStated ==
    LET m == grid.cols
        w == StatedSegmentWidth(m)
        n == (m + w - 1) \div w
    IN /\ Len(StoryTables) = n
       /\ \A k \in 1..n :
             /\ StoryTables[k].first_col = (k - 1) * w + 1
             /\ StoryTables[k].last_col = Min(k * w, m)

\* C9: once a renderer has put a table into the PDF story, the story holds
\* the table as contiguous column segments that cover every column once and
\* in order: one segment up to 8 columns, segments of 8 columns for 9 to 12
\* columns, segments of 6 columns beyond, the last one holding the remainder
\* (15 columns: widths 6, 6, 3).
C9_ColumnSegments == pdf_table_done # "none" => SegmentsAsStated

\* The same statement for app.py's _tables_pdf_enhanced alone.
C9_AppColumnSegments ==
    pdf_table_done = "_tables_pdf_enhanced" =>
        /\ SegmentsAsStated
        /\ grid.cols = 15 =>
              [k \in 1..Len(StoryTables) |->
                  StoryTables[k].last_col - StoryTables[k].first_col + 1]
              = <<6, 6, 3>>

\* No table shows more than 120 rows; beyond 120 rows the first 120 are
\* shown and one note follows the table; otherwise all rows and no note.
RowsAsStated ==
    /\ \A k \in 1..Len(StoryTables) : StoryTables[k].rows <= MAX_ROWS
    /\ IF grid.rows > MAX_ROWS
       THEN /\ \A k \in 1..Len(StoryTables) : StoryTables[k].rows = MAX_ROWS
            /\ Len(StoryNotes) = 1
            /\ story[Len(story)].kind = "note"
       ELSE /\ \A k \in 1..Len(StoryTables) :
                  StoryTables[k].rows = grid.rows
            /\ StoryNotes = <<>>

\* C10: once a renderer has put a table into the PDF story, no table of the
\* story has more than 120 rows; if the deduplicated grid has more than 120
\* rows, exactly the first 120 are rendered and a truncation note ends the
\* story; if it has at most 120 rows, all are rendered and there is no note.
C10_RowLimit == pdf_table_done # "none" => RowsAsStated

\* The same statement for app.py's _tables_pdf_enhanced alone.
C10_AppRowLimit == pdf_table_done = "_tables_pdf_enhanced" => RowsAsStated

-----------------------------------------------------------------------------
(* Claims about tables in the Word document *)

WordTables == LET IsTable(f) == f.kind = "table" IN SelectSeq(word_body, IsTable)

\* C11: once a renderer has put a table into the Word document, a table of
\* more than 12 columns stands there twice, first with its first 8 columns
\* and a note right after it, then with all its columns after a landscape
\* section break and as the end of the document; a table of at most 12
\* columns stands there once with all its columns.
C11_WideTableTwice ==
    word_table_done # "none" =>
        IF grid.cols > 12
        THEN /\ Len(word_body) = 4
             /\ word_body[1] = Flowable("table", 1, 8, grid.rows)
             /\ word_body[2].kind = "note"
             /\ word_body[3].kind = "section"
             /\ word_body[4] = Flowable("table", 1, grid.cols, grid.rows)
        ELSE word_body = <<Flowable("table", 1, grid.cols, grid.rows)>>

\* The part of the statement about tables of at most 12 columns.
C11_NarrowTableOnce ==
    (word_table_done # "none" /\ grid.cols <= 12) =>
        word_body = <<Flowable("table", 1, grid.cols, grid.rows)>>

\* app.py renders the first 8 columns of a wider table and the note, and
\* nothing after them.
C11_AppWideTableInlineOnly ==
    (word_table_done = "_tables_word" /\ grid.cols > 12) =>
        word_body = <<Flowable("table", 1, 8, grid.rows),
                      Flowable("note", 0, 0, 0)>>

-----------------------------------------------------------------------------
(* Claims about batch conversion *)

\* The worker's loop stands between two pages or after the last one, the
\* attempt at the page before having ended.
PageAttemptEnded ==
    /\ w_status \in {"running", "finished"}
    /\ w_pc \in {"page", "returning"}
    /\ w_idx > 1

\* C12: whenever the attempt at a page has ended, however it ended, the
\* parser's temp-file list is empty and every temp file still on disk is one
\* whose removal failed (the failure having been swallowed by cleanup).
C12_TempFilesCleanedPerPage ==
    PageAttemptEnded =>
        /\ parser_temp = {}
        /\ disk_temp \subseteq remove_failed

\* The same statement for the worker of OneNote_ExporterV3.7.py alone.
C12_EnhancedTempFilesCleanedPerPage ==
    (program = "Enhanced" /\ PageAttemptEnded) =>
        /\ parser_temp = {}
        /\ disk_temp \subseteq remove_failed

\* C15: a running worker, unless the window is closed on it, gets to the
\* point where every page of the batch has been attempted and the done
\* signal has been emitted, whatever happened to the pages.
C15_BatchContinuesToDone ==
    (w_status = "running")
        ~> \/ window # "open"
           \/ "done" \in signals /\ attempted = DOMAIN items

\* The same statement for the worker of OneNote_ExporterV3.7.py alone.
C15_EnhancedBatchContinuesToDone ==
    (program = "Enhanced" /\ w_status = "running")
        ~> \/ window # "open"
           \/ "done" \in signals /\ attempted = DOMAIN items

\* The worker is inside a parse call of a page.
MidPage == w_pc \in {"docx", "pdf"}

\* C16: the convert thread is never stopped while it is inside the render of
\* a page.
C16_NoStopMidPage == w_status = "terminated" => ~MidPage

\* The convert thread is inside a call on the parser.
WorkerInParser ==
    /\ WorkerAlive
    /\ w_pc \in {"docx", "pdf", "cleaning"}

\* The GUI thread is inside a call on the parser.
GuiInParser == window = "cleaning"

\* C17: the convert thread and the GUI thread are never inside a call on the
\* one parser (parse_page_to_docx, parse_page_to_pdf, cleanup_temp_files) at
\* the same time.
C17_ParserCallsNeverOverlap == ~(WorkerInParser /\ GuiInParser)

\* _convert itself never stops a page: when the button is enabled, a thread
\* still running has left its loop.
C16_ConvertFindsNoPageUnderWay ==
    (window = "open" /\ ~busy /\ WorkerAlive) => w_pc = "returning"

-----------------------------------------------------------------------------
(* Claims about raising units *)

\* The units of the page whose handler does not raise.
Sound == {k \in 1..Len(page_units) : ~page_units[k].raises}

\* The failure of a unit is confined to it: every unit that does not raise is
\* in the output, the output keeps the order in which they were put there, and
\* the returned boolean is False only with a parse or save failure.
UnitFailuresConfined ==
    page_result # "none" =>
        /\ io_failure # "parse" => Range(rendered) = Sound
        /\ page_result = "False" => io_failure # "none"

\* C13: a failure while extracting or rendering one unit is confined to that
\* unit: the unit is skipped, every later unit of the page is still put into
\* the output, and parse_page_to_docx / parse_page_to_pdf return False only
\* when the markup does not parse or the save / build fails.
C13_UnitFailuresConfined == UnitFailuresConfined

\* C13, EnhancedOneNoteContentParser alone: its content processors confine
\* every unit failure.
C13_EnhancedUnitFailuresConfined ==
    unit_parser = "Enhanced" => UnitFailuresConfined

\* C13, app.py's parse_page_to_pdf: a raising unit never makes the call
\* return False.
C13_AppPdfResultOnlyFromParseOrBuild ==
    (unit_parser = "App" /\ target = "pdf" /\ page_result = "False")
        => io_failure # "none"

\* A page through the Enhanced parser with a raising unit followed by a sound
\* one, parsed and saved.
C13_EnhancedWitness ==
    /\ unit_parser = "Enhanced"
    /\ page_result = "True"
    /\ \E k \in 1..Len(page_units) :
          /\ page_units[k].raises
          /\ k + 1 \in Range(rendered)

-----------------------------------------------------------------------------
(* Claims about the indent of a text *)

\* The indent level as stated: the number in the indent attribute of the
\* nearest List above the text, 0 without such a List or such a number.
StatedIndentLevel == NearestList(t_ancestors)

\* C21: the indent level a text handler works out is the numeric indent
\* attribute of the nearest List ancestor of the text (0 without a List
\* ancestor, without the attribute, or when it is not a number), and a text
\* under a List of indent n > 0 gets a left indent proportional to n.
C21_IndentOfNearestListAncestor ==
    indent_done # "none" =>
        /\ indent_level = StatedIndentLevel
        /\ StatedIndentLevel > 0 =>
              \E step \in {QuarterInch, HalfInch, PdfIndentStep, App_PdfIndentStep} :
                 left_indent = StatedIndentLevel * step

\* C21, what OneNote_ExporterV3.7.py does: its handlers never indent.
C21_EnhancedNeverIndents ==
    indent_done \in {"_process_text_for_word", "_process_text_for_pdf"} =>
        indent_level = 0 /\ left_indent = 0

\* C21, what app.py does: the indent is proportional to the level it read
\* from a List below the OE.
C21_AppIndentProportional ==
    indent_done = "App_process_outline_element" =>
        left_indent = (IF indent_level > 0 THEN indent_level * HalfInch ELSE 0)

-----------------------------------------------------------------------------
(* Claims about the size of a picture in the PDF *)

\* 70% of the content width, rounded down to the hundredth of a point.
StatedMinWidth == (page_width * 7) \div 10

\* C22: a picture of positive natural size is placed in the PDF with a width
\* of at least 70% of the content width and at most the content width, and
\* with a height of at most the content height.
C22_PdfImageSizeBounds ==
    size_done # "none" =>
        /\ final_width >= StatedMinWidth
        /\ final_width <= page_width
        /\ final_height <= page_height

\* C22, the part OneNote_ExporterV3.7.py keeps: at most the content width and
\* at most the content height.
C22_EnhancedUpperBounds ==
    size_done = "_calculate_pdf_image_size" =>
        /\ final_width <= page_width
        /\ final_height <= page_height

\* C22, the part app.py keeps: the width lies between 70% of the content
\* width and the content width.
C22_AppWidthBounds ==
    size_done = "App_images_pdf_enhanced" =>
        /\ final_width >= StatedMinWidth
        /\ final_width <= page_width

-----------------------------------------------------------------------------
(* Claims about whitespace in cleaned text *)

\* The text neither starts nor ends with whitespace.
Trimmed(text) ==
    text # <<>> => Head(text) \notin Whitespace /\ text[Len(text)] \notin Whitespace

\* Two whitespace characters next to each other.
HasWhitespaceRun(text) ==
    \E k \in 1..(Len(text) - 1) : text[k] \in Whitespace /\ text[k + 1] \in Whitespace

\* C23: the text a cleaner returns is trimmed and holds no two consecutive
\* whitespace characters: every run of spaces, tabs and newlines of the
\* input has been collapsed.
C23_TrimmedNoWhitespaceRun ==
    text_done # "none" => Trimmed(clean_text) /\ ~HasWhitespaceRun(clean_text)

\* C23, the part both cleaners keep: the text is trimmed and holds no tab,
\* vertical tab or form feed.
C23_TrimmedNoTab ==
    text_done # "none" =>
        /\ Trimmed(clean_text)
        /\ \A k \in 1..Len(clean_text) : clean_text[k] \notin TabLike

-----------------------------------------------------------------------------
(* Claims about RIFF data *)

\* C24: bytes that begin 'RIFF' are given '.webp' only when 'WEBP' occurs
\* in their first 12 bytes; without that mark they are given the default
\* '.png'.
C24_RiffNeedsWebpMark ==
    (format_ext # "none" /\ startswith(data, RIFF)) =>
        IF InFirst(WEBP, data, RiffHeaderLen)
        THEN format_ext = ".webp"
        ELSE format_ext = ".png"

\* C24, what the detector does: every byte string that begins 'RIFF' is
\* given '.webp', with or without the mark.
C24_EveryRiffIsWebp ==
    (format_ext # "none" /\ startswith(data, RIFF)) => format_ext = ".webp"

-----------------------------------------------------------------------------
(* Claims about building the tree *)

\* The tree holds exactly one item for every item of the hierarchy, each
\* under its parent.
TreeComplete ==
    LET wanted == BuildItems(nbs)
    IN /\ Len(tree_items) = Len(wanted)
       /\ \A k \in 1..Len(wanted) :
              Cardinality({n \in 1..Len(tree_items) :
                              tree_items[n] = TreeItem(wanted[k])}) = 1

\* C25: once the build of a refresh has finished, the tree holds exactly one
\* item for every notebook, section and page of the hierarchy, each under
\* its parent, however the handling of the done signal falls among the
\* batches.
C25_TreeCompleteAfterBuild ==
    build_finished => TreeComplete

\* C25, what holds in every interleaving: the tree never holds an item
\* twice, and every item it holds is an item of the hierarchy under its
\* parent.
C25_TreeItemsCorrect ==
    LET wanted == BuildItems(nbs)
    IN /\ \A m, n \in 1..Len(tree_items) : tree_items[m] = tree_items[n] => m = n
       /\ \A n \in 1..Len(tree_items) :
              \E k \in 1..Len(wanted) : tree_items[n] = TreeItem(wanted[k])

\* C25, the hierarchies that fit one batch: the finished tree is complete.
C25_CompleteWithinOneBatch ==
    (build_finished /\ Len(BuildItems(nbs)) <= batch_size) => TreeComplete

-----------------------------------------------------------------------------
(* Claims about cascading check marks *)

\* The check mark of a parent agrees with those of its children: Checked
\* iff all are Checked, Unchecked iff all are Unchecked.
Agrees(item) ==
    LET kids == children(shape, item)
    IN /\ check_state[item] = "Checked" <=> \A c \in kids : check_state[c] = "Checked"
       /\ check_state[item] = "Unchecked" <=> \A c \in kids : check_state[c] = "Unchecked"

\* C26: after any sequence of clicks on notebooks, sections and pages, every
\* section that has pages agrees with its pages and every notebook that has
\* sections agrees with its sections.
C26_ParentsAgreeWithChildren ==
    \A item \in TreeNotebooks(shape) \cup TreeSections(shape) :
        children(shape, item) # {} => Agrees(item)

\* C26, the part the handler keeps: every section that has pages agrees
\* with its pages.
C26_SectionsAgreeWithPages ==
    \A item \in TreeSections(shape) : children(shape, item) # {} => Agrees(item)

\* C26, the part the handler keeps: after a click on a notebook or on a
\* page, the notebook of the clicked item agrees with its sections.
C26_NotebookAgreesAfterNotebookOrPageClick ==
    Len(toggled) \in {1, 3} =>
        (children(shape, <<toggled[1]>>) # {} => Agrees(<<toggled[1]>>))

-----------------------------------------------------------------------------
(* Claims about the convert button *)

\* C27: in every state of the window the convert button is enabled only if
\* the window is not busy, at least one page is selected and an output
\* directory has been chosen.
C27_ConvertEnabledOnlyWhenReady ==
    convert_enabled => (~gui_busy /\ selected > 0 /\ dir_chosen)

\* C27, the part _set_busy keeps: the button is never enabled while the
\* window is busy.
C27_NeverEnabledWhileBusy ==
    convert_enabled => ~gui_busy

\* C27, the part _convert keeps: a conversion starts only with a page
\* selected and a directory chosen.
C27_ConversionStartsOnlyWhenReady ==
    [][gui_task' = "convert" => (selected > 0 /\ dir_chosen)]_vars

-----------------------------------------------------------------------------
(* Claims about output paths *)

\* C28: within one run every page that was exported successfully keeps its
\* own file: the file at its path is the one it wrote, not one written by a
\* later page of the run.
C28_NoPageOverwritten ==
    \A pf \in out_ok :
        LET path == OutPath(out_items[pf[1]], pf[2])
        IN path \in DOMAIN out_files /\ out_files[path] = pf[1]

\* C28, the runs without a clash: when the sanitised paths of the selected
\* pages differ, every exported page keeps its file.
C28_DistinctPathsKept ==
    (\A m, n \in 1..Len(out_items) :
        m # n => OutPath(out_items[m], ".docx") # OutPath(out_items[n], ".docx"))
    => C28_NoPageOverwritten

-----------------------------------------------------------------------------
(* Claims about fetching a page's content *)

\* C29: get_page_content makes at most max_retries turns and never raises;
\* once it has returned, it returned the content of the first turn that
\* gave text, or the empty string when no turn did; and after the empty
\* string the worker skips the page and writes no output file.
C29_RetriesThenEmptyThenSkip ==
    /\ fetch_attempt <= fetch_max
    /\ fetch_pc # "raised"
    /\ fetch_pc \in {"returned", "skipped", "exported"} =>
          IF \E k \in 1..Len(fetch_log) : fetch_log[k] # "none"
          THEN LET first == CHOOSE k \in 1..Len(fetch_log) :
                               /\ fetch_log[k] # "none"
                               /\ \A j \in 1..(k - 1) : fetch_log[j] = "none"
               IN fetch_result = <<first, fetch_log[first]>>
          ELSE fetch_result = <<>> /\ fetch_attempt = fetch_max
    /\ (fetch_pc \in {"skipped", "exported"} /\ fetch_result = <<>>) =>
          (fetch_pc = "skipped" /\ fetch_files = {})

\* Every turn of three failed or gave blank text, the empty string came
\* back and the worker skipped the page.
C29_Witness ==
    /\ fetch_max = MaxRetries
    /\ fetch_attempt = fetch_max
    /\ fetch_log = [k \in 1..MaxRetries |-> "none"]
    /\ fetch_pc = "skipped"

\* The second turn was the first to give text, and its content came back.
C29_SecondTurnReturned ==
    /\ fetch_pc = "exported"
    /\ fetch_result = <<2, "ps">>
    /\ fetch_log = <<"none", "ps">>

-----------------------------------------------------------------------------
(* Claims about nested tables *)

\* No Row element is among the rows of two Table units of the output.
RowsInOneTable(units) ==
    \A m, n \in 1..Len(units) :
        (m # n /\ units[m].kind = "table" /\ units[n].kind = "table")
            => Range(units[m].rows) \cap Range(units[n].rows) = {}

\* C30: every Row of the page contributes to at most one Table unit of the
\* Word document and of the PDF, also when its table lies inside a cell of
\* another table.
C30_RowInAtMostOneTable ==
    RowsInOneTable(wordDoc) /\ RowsInOneTable(pdfStory)

\* C30, the pages without a table inside a table: no row is rendered twice.
C30_FlatTablesOnce ==
    (xml.ok /\ \A el \in 1..xml.n :
        Tag(xml, el) = "Table" =>
            \A a \in AncOrSelfOf(xml.par, xml.par[el]) : Tag(xml, a) # "Table")
    => C30_RowInAtMostOneTable

=============================================================================
